---- MODULE Spec2Model ----
(***************************************************************************)
(* Tenant isolation and request-authorization pipeline of the LMS backend. *)
(*                                                                         *)
(* Strings are sequences of one-character strings, so that the character   *)
(* level transformations of the code (replace, toLowerCase, trim, the      *)
(* tenant pattern, template strings) are computed and not assumed.         *)
(* An optional value (a header that may be absent) is a sequence of length *)
(* 0 (absent) or 1 (present).                                              *)
(***************************************************************************)
EXTENDS Integers, Sequences, FiniteSets, TLC

VARIABLES
    cache,      \* TenantDataSourceProvider.cache : Map<string, DataSource>
    conns,      \* every juggler.DataSource constructed so far, by identity
    dcall,      \* the latest invocation of disconnectAll(), made by stop()
    returned,   \* what the most recent value() call gave its caller
    env,        \* process.env: the two JWT secrets and TENANT_DB_PREFIX
    now,        \* the clock, in days
    issued,     \* the generateTokenPair() calls answered so far
    lastCall,   \* the most recent token-service or strategy call and its outcome
    authz,      \* the most recent call of the authorizer and its decision
    db,         \* the course tree of every tenant database, and the number
                \* of handlers started
    last,       \* the response to the most recent controller request
    users,      \* the users collection of every tenant database
    calls,      \* the handler invocations suspended at an await
    cms,        \* the contents and content revisions of the CMS
    pipe,       \* the request in the REST sequence and the stage it reached
    probe       \* the most recent call of a utility function and its result

regVars == <<cache, conns, dcall, returned>>

authVars == <<env, now, issued, lastCall>>

\* The state of the request handlers behind the authentication strategy
svcVars == <<users, calls, cms, pipe, probe>>

appVars == <<authz, db, last, users, calls, cms, pipe, probe>>

vars == <<cache, conns, dcall, returned, env, now, issued, lastCall, authz,
          db, last, users, calls, cms, pipe, probe>>

----------------------------------------------------------------------------
(* Bounds of the model *)

\* DataSource objects constructed in one run
MaxConns == 2

\* generateTokenPair() calls in one run
MaxPairs == 1

\* days the clock runs
MaxTime == 8

\* handlers of the course tree started in one run
MaxCalls == 2

\* users registered in one run
MaxUsers == 2

\* requests to /auth and /tenant/me/password while the tokens of an account
\* are followed
MaxRequests == 3

\* days the clock runs while accounts are followed
MaxDays == 2

\* The length of the tenant ids and passwords given to the utility functions
MaxLen == 3

\* updateDraft, publish, unpublish and archive calls started in one run
MaxEdits == 2

\* upsertAttendance and deleteAttendance calls started in one run
MaxMarks == 2

\* createDraft calls started in one run
MaxDrafts == 2

\* calls of the CMS service in flight at a time
MaxOverlap == 2

----------------------------------------------------------------------------
(* Characters and strings *)

UpperChars == <<"A","B","C","D","E","F","G","H","I","J","K","L","M",
                "N","O","P","Q","R","S","T","U","V","W","X","Y","Z">>

LowerChars == <<"a","b","c","d","e","f","g","h","i","j","k","l","m",
                "n","o","p","q","r","s","t","u","v","w","x","y","z">>

DigitChars == {"0","1","2","3","4","5","6","7","8","9"}

\* The characters String.prototype.trim strips: WhiteSpace and LineTerminator
\* of ECMAScript.  A character with no escape is written by its code point.
WhitespaceChars ==
    { " ", "\t", "\n", "\r", "\f", "U+000B", "U+00A0", "U+FEFF", "U+1680",
      "U+2000", "U+2001", "U+2002", "U+2003", "U+2004", "U+2005", "U+2006",
      "U+2007", "U+2008", "U+2009", "U+200A", "U+2028", "U+2029", "U+202F",
      "U+205F", "U+3000" }

Range(s) == {s[i] : i \in DOMAIN s}

\* The lower-case letter of every upper-case letter
LowerOf ==
    [c \in Range(UpperChars) |->
        LowerChars[CHOOSE i \in DOMAIN UpperChars : UpperChars[i] = c]]

\* String.prototype.toLowerCase on one ASCII character
LowerChar(c) == IF c \in DOMAIN LowerOf THEN LowerOf[c] ELSE c

ToLowerCase(s) == [i \in 1..Len(s) |-> LowerChar(s[i])]

\* s.replace(/-/g, '_')
ReplaceHyphens(s) == [i \in 1..Len(s) |-> IF s[i] = "-" THEN "_" ELSE s[i]]

RECURSIVE TrimStart(_)
TrimStart(s) ==
    IF s # <<>> /\ Head(s) \in WhitespaceChars THEN TrimStart(Tail(s)) ELSE s

RECURSIVE TrimEnd(_)
TrimEnd(s) ==
    IF s # <<>> /\ s[Len(s)] \in WhitespaceChars
    THEN TrimEnd(SubSeq(s, 1, Len(s) - 1))
    ELSE s

\* String.prototype.trim
Trim(s) == TrimEnd(TrimStart(s))

----------------------------------------------------------------------------
(* utils/tenant *)

\* The character class [a-zA-Z0-9_-]
TenantIdChars ==
    Range(LowerChars) \cup Range(UpperChars) \cup DigitChars \cup {"_", "-"}

\* TENANT_ID_PATTERN = /^[a-zA-Z0-9_-]+$/
TenantIdPatternTest(s) ==
    /\ Len(s) >= 1
    /\ \A i \in 1..Len(s) : s[i] \in TenantIdChars

\* extractTenantId: header is the optional x-tenant-id header value
extractTenantId(header) ==
    IF header = <<>> \/ Trim(header[1]) = <<>>
    THEN [status |-> "BadRequest", tenantId |-> <<>>]
    ELSE IF ~TenantIdPatternTest(header[1])
    THEN [status |-> "BadRequest", tenantId |-> <<>>]
    ELSE [status |-> "ok", tenantId |-> Trim(header[1])]

\* s.replace('-', '_'): the first hyphen only
ReplaceFirstHyphen(s) ==
    [i \in 1..Len(s) |->
        IF s[i] = "-" /\ \A j \in 1..(i - 1) : s[j] # "-" THEN "_" ELSE s[i]]

\* sanitizeTenantId with a replace that is not global
sanitizeTenantIdFirstHyphen(tenantId) ==
    ToLowerCase(ReplaceFirstHyphen(tenantId))

sanitizeTenantId(tenantId) == ToLowerCase(ReplaceHyphens(tenantId))

\* What TENANT_DB_PREFIX may be set to: unset, empty, a prefix
PrefixValues == { <<>>, << <<>> >>, << <<"p","x">> >> }

\* process.env.TENANT_DB_PREFIX ?? 'tenant'
TenantDbPrefix ==
    IF env.TENANT_DB_PREFIX = <<>>
    THEN <<"t","e","n","a","n","t">>
    ELSE env.TENANT_DB_PREFIX[1]

buildTenantDatabaseName(tenantId) ==
    TenantDbPrefix \o <<"_">> \o ToLowerCase(ReplaceHyphens(tenantId))

----------------------------------------------------------------------------
(* services/tenant-datasource.provider *)

\* The x-tenant-id header values of the requests that reach the provider
TenantHeaders ==
    { <<>>,                       \* header absent
      << <<" ">> >>,              \* blank
      << <<"a","!">> >>,          \* fails the pattern
      << <<"a","-","b">> >>,
      << <<"A","_","B">> >>,
      << <<"c">> >> }

ConnIds == 1..Len(conns)

Cached(t) == t \in DOMAIN cache

EmptyCache == [t \in {} |-> 0]

\* buildTenantConfig: the fields of the DataSource configuration that depend
\* on the tenant
buildTenantConfig(tenantId) ==
    [ name     |-> <<"m","o","n","g","o","T","e","n","a","n","t","_">>
                   \o tenantId,
      database |-> buildTenantDatabaseName(tenantId) ]

\* new juggler.DataSource(config): the connection opens in the background
NewDataSource(tenantId) ==
    [ tenantId |-> tenantId,
      config   |-> buildTenantConfig(tenantId),
      status   |-> "connecting",
      errored  |-> FALSE,
      listener |-> FALSE ]

RegistryInit ==
    /\ cache = EmptyCache
    /\ conns = <<>>
    /\ dcall = [targets |-> {}, status |-> "none"]
    /\ returned = [status |-> "none", conn |-> 0, cacheHit |-> FALSE]

MapSet(m, k, v) == [x \in DOMAIN m \cup {k} |-> IF x = k THEN v ELSE m[x]]

MapDelete(m, k) == [x \in DOMAIN m \ {k} |-> m[x]]

MapValues(m) == {m[x] : x \in DOMAIN m}

Failure(status) == [status |-> status, conn |-> 0, cacheHit |-> FALSE]

\* value() with the cache lookup left out: a DataSource for every call
ValueAlwaysCreates(header) ==
    LET ex == extractTenantId(header) IN
    /\ ex.status = "ok"
    /\ Len(conns) < MaxConns
    /\ conns' = Append(conns,
                       [NewDataSource(ex.tenantId) EXCEPT !.listener = TRUE])
    /\ cache' = MapSet(cache, ex.tenantId, Len(conns) + 1)
    /\ returned' = [status |-> "ok", conn |-> Len(conns) + 1,
                    cacheHit |-> FALSE]
    /\ UNCHANGED dcall
    /\ UNCHANGED <<authVars, appVars>>

\* The cache, the DataSources constructed and what the latest value() gave
Registry == [cache |-> cache, conns |-> conns, returned |-> returned]

\* TenantDataSourceProvider.value() for a request whose x-tenant-id header is
\* `header`, on a registry: what it leaves of the cache and the connections
\* and what it returns.  The body holds no await.
value(registry, header) ==
    LET ex == extractTenantId(header) IN
    IF ex.status # "ok"
    THEN [registry EXCEPT !.returned = Failure(ex.status)]
    ELSE IF ex.tenantId \notin DOMAIN registry.cache
    THEN [ cache    |-> MapSet(registry.cache, ex.tenantId,
                               Len(registry.conns) + 1),
           conns    |-> Append(registry.conns,
                               [NewDataSource(ex.tenantId)
                                  EXCEPT !.listener = TRUE]),
           returned |-> [status |-> "ok", conn |-> Len(registry.conns) + 1,
                         cacheHit |-> FALSE] ]
    ELSE [registry EXCEPT
            !.returned = [status |-> "ok",
                          conn |-> registry.cache[ex.tenantId],
                          cacheHit |-> TRUE]]

\* A turn of the event loop has left the registry as `registry`; at most
\* MaxConns DataSources are constructed in a run
RegistryBecomes(registry) ==
    /\ Len(registry.conns) <= MaxConns
    /\ cache' = registry.cache
    /\ conns' = registry.conns
    /\ returned' = registry.returned
    /\ UNCHANGED dcall

\* One call of value(), which runs to completion in one turn
ProviderValue(header) == RegistryBecomes(value(Registry, header))

Value(header) ==
    /\ UNCHANGED <<authVars, appVars>>
    /\ ProviderValue(header)

\* The connection of DataSource c is established
ConnectionEstablished(c) ==
    /\ conns[c].status = "connecting"
    /\ conns' = [conns EXCEPT ![c].status = "connected"]
    /\ UNCHANGED <<cache, dcall, returned>>
    /\ UNCHANGED <<authVars, appVars>>

\* An error handler that forgets to evict
ConnectionErrorKeepsEntry(c) ==
    /\ conns[c].listener
    /\ conns' = [conns EXCEPT ![c].errored = TRUE, ![c].listener = FALSE]
    /\ UNCHANGED <<cache, dcall, returned>>
    /\ UNCHANGED <<authVars, appVars>>

\* An error handler that drops every entry
ConnectionErrorClearsAll(c) ==
    /\ conns[c].listener
    /\ cache' = EmptyCache
    /\ conns' = [conns EXCEPT ![c].errored = TRUE, ![c].listener = FALSE]
    /\ UNCHANGED <<dcall, returned>>
    /\ UNCHANGED <<authVars, appVars>>

\* DataSource c emits 'error': the listener registered with once() runs
ConnectionError(c) ==
    /\ conns[c].listener
    /\ cache' = MapDelete(cache, conns[c].tenantId)
    /\ conns' = [conns EXCEPT ![c].errored = TRUE, ![c].listener = FALSE]
    /\ UNCHANGED <<dcall, returned>>
    /\ UNCHANGED <<authVars, appVars>>

\* disconnectAll() that leaves the cache as it is
DisconnectAllKeepsCache ==
    /\ dcall.status # "pending"
    /\ LET active == MapValues(cache) IN
         /\ conns' = [c \in ConnIds |->
                        IF c \in active
                        THEN [conns[c] EXCEPT !.status = "closing"]
                        ELSE conns[c]]
         /\ dcall' = [targets |-> active, status |-> "pending"]
    /\ UNCHANGED <<cache, returned>>
    /\ UNCHANGED <<authVars, appVars>>

\* disconnectAll() up to its await: snapshot, clear, disconnect() on each
DisconnectAll ==
    /\ dcall.status # "pending"
    /\ LET activeDataSources == MapValues(cache) IN
         /\ cache' = EmptyCache
         /\ conns' = [c \in ConnIds |->
                        IF c \in activeDataSources
                        THEN [conns[c] EXCEPT !.status = "closing"]
                        ELSE conns[c]]
         /\ dcall' = [targets |-> activeDataSources, status |-> "pending"]
    /\ UNCHANGED returned
    /\ UNCHANGED <<authVars, appVars>>

\* ds.disconnect() of DataSource c settles: fulfilled (ok) or rejected
DisconnectSettles(c, ok) ==
    /\ conns[c].status = "closing"
    /\ conns' = [conns EXCEPT
                   ![c].status = IF ok THEN "closed" ELSE "closeFailed"]
    /\ UNCHANGED <<cache, dcall, returned>>
    /\ UNCHANGED <<authVars, appVars>>

\* Promise.all over the bare disconnect() promises: the first rejection
\* rejects the whole call
DisconnectAllSettlesUncaught ==
    /\ dcall.status = "pending"
    /\ \/ /\ \E c \in dcall.targets : conns[c].status = "closeFailed"
          /\ dcall' = [dcall EXCEPT !.status = "rejected"]
       \/ /\ \A c \in dcall.targets : conns[c].status = "closed"
          /\ dcall' = [dcall EXCEPT !.status = "resolved"]
    /\ UNCHANGED <<cache, conns, returned>>
    /\ UNCHANGED <<authVars, appVars>>

\* The await of the disconnectAll() call: Promise.all over the promises
\* disconnect().catch(() => undefined), each of which fulfils
DisconnectAllSettles ==
    /\ dcall.status = "pending"
    /\ \A c \in dcall.targets :
          conns[c].status \in {"closed", "closeFailed"}
    /\ dcall' = [dcall EXCEPT !.status = "resolved"]
    /\ UNCHANGED <<cache, conns, returned>>
    /\ UNCHANGED <<authVars, appVars>>

----------------------------------------------------------------------------
(* Connection registry: properties *)

TenantAB == <<"a","-","b">>

TenantC == <<"c">>

\* The tenant id a value() call for `header` works with
TenantOf(header) == extractTenantId(header).tenantId

ValidHeaders == {h \in TenantHeaders : extractTenantId(h).status = "ok"}

\* C1: the cache holds at most one connection per sanitized tenant id: two
\* cached raw tenant ids with the same sanitized form are served by the very
\* same connection object.
C1_OneConnectionPerSanitizedTenant ==
    \A r1 \in DOMAIN cache, r2 \in DOMAIN cache :
        sanitizeTenantId(r1) = sanitizeTenantId(r2) => cache[r1] = cache[r2]

\* C2: tenant isolation of connections.  Every cached connection, and every
\* connection value() returns for a header, was created for a tenant id with
\* the header's sanitized form and names the database <prefix>_<sanitized>;
\* an 'error' of a connection of tenant A leaves the cache entries of every
\* tenant with another sanitized id as they were.
C2_TenantIsolation ==
    [][ /\ \A t \in DOMAIN cache' :
             /\ sanitizeTenantId(conns'[cache'[t]].tenantId)
                  = sanitizeTenantId(t)
             /\ conns'[cache'[t]].config.database
                  = TenantDbPrefix \o <<"_">> \o sanitizeTenantId(t)
        /\ \A h \in ValidHeaders :
             Value(h) =>
               /\ returned'.status = "ok"
               /\ sanitizeTenantId(conns'[returned'.conn].tenantId)
                    = sanitizeTenantId(TenantOf(h))
               /\ conns'[returned'.conn].config.database
                    = TenantDbPrefix \o <<"_">> \o sanitizeTenantId(TenantOf(h))
        /\ \A c \in ConnIds :
             ConnectionError(c) =>
               \A t \in DOMAIN cache :
                 sanitizeTenantId(t) # sanitizeTenantId(conns[c].tenantId)
                   => t \in DOMAIN cache' /\ cache'[t] = cache[t]
      ]_vars

\* C2 witness: a connection of tenant a-b has signalled an error while the
\* connection of tenant c is still cached, under its own database name.
C2_Witness ==
    \E a \in ConnIds :
        /\ conns[a].tenantId = TenantAB
        /\ conns[a].errored
        /\ Cached(TenantC)
        /\ cache[TenantC] # a
        /\ conns[cache[TenantC]].config.database
             = TenantDbPrefix \o <<"_","c">>

\* C3: one open per tenant id.  A value() call for a tenant id that is cached
\* constructs nothing and returns the cached connection, also while that
\* connection is still opening; a call for a tenant id that is not cached
\* constructs exactly one connection, caches and returns it; and only an
\* 'error' or disconnectAll() takes an entry out of the cache.
C3_ExactlyOneOpen ==
    [][ /\ \A h \in ValidHeaders :
             Value(h) =>
               /\ Cached(TenantOf(h)) =>
                    /\ conns' = conns
                    /\ returned'.conn = cache[TenantOf(h)]
               /\ ~Cached(TenantOf(h)) =>
                    /\ Len(conns') = Len(conns) + 1
                    /\ returned'.conn = Len(conns')
               /\ cache'[TenantOf(h)] = returned'.conn
        /\ (~(\E c \in ConnIds : ConnectionError(c)) /\ ~DisconnectAll) =>
             \A t \in DOMAIN cache :
                 t \in DOMAIN cache' /\ cache'[t] = cache[t]
      ]_vars

\* C3 witness: a second call was answered from the cache while the only
\* connection constructed so far was still opening.
C3_Witness ==
    /\ returned.status = "ok"
    /\ returned.cacheHit
    /\ Len(conns) = 1
    /\ conns[returned.conn].status = "connecting"

\* C4: error eviction.  When a cached connection signals an error its tenant's
\* entry is removed; no cached connection has signalled an error; value()
\* never returns a connection that has signalled an error.
C4_ErrorEviction ==
    [][ /\ \A c \in ConnIds :
             (ConnectionError(c) /\ c \in MapValues(cache)) =>
                 ~(conns[c].tenantId \in DOMAIN cache')
        /\ \A t \in DOMAIN cache' : ~conns'[cache'[t]].errored
        /\ \A h \in ValidHeaders :
             Value(h) => ~conns'[returned'.conn].errored
      ]_vars

\* C4 witness: after the connection of a tenant id signalled an error, a
\* value() call for the same tenant id constructed a fresh connection.
C4_Witness ==
    \E c \in ConnIds :
        /\ conns[c].errored
        /\ returned.status = "ok"
        /\ ~returned.cacheHit
        /\ returned.conn # c
        /\ conns[returned.conn].tenantId = conns[c].tenantId
        /\ ~conns[returned.conn].errored

\* C28: an error event evicts only the connection that raised it.  When a
\* connection signals an error, every cache entry that holds another
\* connection stays as it is: an entry is deleted only by an error of the
\* connection it holds, and no cached connection is lost to disconnectAll.
C28_ErrorEvictsOnlyItsOwn ==
    [][\A c \in ConnIds : \A t \in DOMAIN cache :
          (ConnectionError(c) /\ cache[t] # c) =>
              (t \in DOMAIN cache' /\ cache'[t] = cache[t])]_vars

AllSettled == \A c \in dcall.targets : conns[c].status \in {"closed", "closeFailed"}

\* C5: disconnectAll() never rejects; every connection it found cached has
\* had disconnect() called on it, whatever the outcome of the other closes;
\* once they have all settled the call can complete, and it completes only
\* then; the cache holds none of those connections.
C5_DisconnectAllTolerant ==
    /\ dcall.status # "rejected"
    /\ dcall.status \in {"pending", "resolved"} =>
         \A c \in dcall.targets :
            /\ conns[c].status \in {"closing", "closed", "closeFailed"}
            /\ c \notin MapValues(cache)
    /\ (dcall.status = "pending" /\ AllSettled) => ENABLED DisconnectAllSettles
    /\ dcall.status = "resolved" => AllSettled

\* C5 witness: disconnectAll() completed although one close failed, and the
\* other connection was closed.
C5_Witness ==
    /\ dcall.status = "resolved"
    /\ \E c1 \in dcall.targets, c2 \in dcall.targets :
          /\ conns[c1].status = "closeFailed"
          /\ conns[c2].status = "closed"

\* C6: value() never returns a connection handed to disconnectAll(): the
\* connection it returns is not among the ones being closed and is open.
C6_ClearBeforeClose ==
    [][ \A h \in ValidHeaders :
          Value(h) =>
            /\ returned'.conn \notin dcall'.targets
            /\ conns'[returned'.conn].status \in {"connecting", "connected"}
      ]_vars

\* C6 witness: while the close of a tenant's connection is in flight, a
\* value() call for that tenant id returned another, new connection.
C6_Witness ==
    /\ dcall.status = "pending"
    /\ returned.status = "ok"
    /\ returned.conn \notin dcall.targets
    /\ \E c \in dcall.targets :
          /\ conns[c].status = "closing"
          /\ conns[c].tenantId = conns[returned.conn].tenantId

----------------------------------------------------------------------------
(* application: the bindings of the secrets and expiry policy *)

\* What JWT_SECRET and JWT_REFRESH_SECRET may be set to: unset, empty, a key
EnvValues == { <<>>, <<"">>, <<"k1">> }

\* AuthBindings.TOKEN_SECRET: process.env.JWT_SECRET ?? 'change-me'
TokenSecret ==
    IF env.JWT_SECRET = <<>> THEN "change-me" ELSE env.JWT_SECRET[1]

\* AuthBindings.REFRESH_TOKEN_SECRET:
\* process.env.JWT_REFRESH_SECRET ?? 'change-me-refresh'
RefreshTokenSecret ==
    IF env.JWT_REFRESH_SECRET = <<>>
    THEN "change-me-refresh"
    ELSE env.JWT_REFRESH_SECRET[1]

\* AuthBindings.TOKEN_EXPIRES_IN, '1d', in days
TokenExpiresIn == 1

\* AuthBindings.REFRESH_TOKEN_EXPIRES_IN, '7d', in days
RefreshExpiresIn == 7

----------------------------------------------------------------------------
(* auth/token.service *)

\* The JwtTokenService constructor returns (it throws on a falsy secret)
ServiceConstructed == TokenSecret # "" /\ RefreshTokenSecret # ""

\* The identities tokens are issued for (LmsUserProfile)
Profiles ==
    { [ id |-> "u1", email |-> "u1@x.com", tenantId |-> <<"a","-","b">>,
        roles |-> <<"instructor">>, name |-> <<"Ann">>, permissions |-> <<>> ],
      [ id |-> "u2", email |-> "u2@x.com", tenantId |-> <<"c">>,
        roles |-> <<"student", "tenantAdmin">>, name |-> <<>>,
        permissions |-> << <<"cms:write">> >> ] }

NoClaims ==
    [ sub |-> "", email |-> "", tenantId |-> <<>>, roles |-> <<>>,
      name |-> <<>>, permissions |-> <<>>, tokenType |-> <<>>,
      iat |-> <<>>, exp |-> <<>> ]

\* buildPayload(profile, tokenType)
buildPayload(profile, tokenType) ==
    [ sub         |-> profile.id,
      email       |-> profile.email,
      tenantId    |-> profile.tenantId,
      roles       |-> <<profile.roles>>,
      name        |-> profile.name,
      permissions |-> profile.permissions,
      tokenType   |-> <<tokenType>>,
      iat         |-> <<>>,
      exp         |-> <<>> ]

\* jwt.sign(payload, secret, {expiresIn}) for an object payload: the claims
\* get iat and exp, and the token is signed with the secret
JwtSign(payload, secret, expiresIn) ==
    [ wellFormed |-> TRUE,
      kind       |-> "object",
      claims     |-> [payload EXCEPT !.iat = <<now>>,
                                     !.exp = <<now + expiresIn>>],
      sig        |-> secret ]

\* jwt.sign of a string payload (no expiry can be set on one)
JwtSignString(secret) ==
    [ wellFormed |-> TRUE, kind |-> "string", claims |-> NoClaims,
      sig |-> secret ]

\* A string that is no JWT at all
MalformedToken ==
    [ wellFormed |-> FALSE, kind |-> "string", claims |-> NoClaims,
      sig |-> "" ]

Thrown(error) == [thrown |-> TRUE, error |-> error, kind |-> "string",
                  claims |-> NoClaims]

Decoded(token) == [thrown |-> FALSE, error |-> "", kind |-> token.kind,
                   claims |-> token.claims]

\* jwt.verify(token, secret): the decoded payload, or the error thrown
JwtVerify(token, secret) ==
    IF ~token.wellFormed THEN Thrown("jwt malformed")
    ELSE IF secret = "" THEN Thrown("secret or public key must be provided")
    ELSE IF token.sig # secret THEN Thrown("invalid signature")
    ELSE IF token.claims.exp # <<>> /\ now >= token.claims.exp[1]
    THEN Thrown("jwt expired")
    ELSE Decoded(token)

\* The try block of verifyToken: what it returns or throws
VerifyTokenTry(token, secret, expectedType) ==
    LET decoded == JwtVerify(token, secret) IN
    IF decoded.thrown THEN decoded
    ELSE IF decoded.kind = "string" THEN Thrown("Invalid token payload")
    ELSE IF decoded.claims.tokenType # <<expectedType>>
    THEN Thrown("Token type mismatch")
    ELSE decoded

Unauthorized(message) ==
    [status |-> "Unauthorized", message |-> message, claims |-> NoClaims]

\* verifyToken whose catch block rethrows what it caught
verifyTokenRethrows(token, secret, expectedType) ==
    LET tried == VerifyTokenTry(token, secret, expectedType) IN
    IF tried.thrown
    THEN Unauthorized(tried.error)
    ELSE [status |-> "ok", message |-> "", claims |-> tried.claims]

\* verifyToken without the tokenType comparison
verifyTokenAnyType(token, secret, expectedType) ==
    LET decoded == JwtVerify(token, secret) IN
    IF decoded.thrown \/ decoded.kind = "string"
    THEN Unauthorized("Invalid or expired token")
    ELSE [status |-> "ok", message |-> "", claims |-> decoded.claims]

\* verifyToken(token, secret, expectedType)
verifyToken(token, secret, expectedType) ==
    LET tried == VerifyTokenTry(token, secret, expectedType) IN
    IF tried.thrown
    THEN Unauthorized("Invalid or expired token")
    ELSE [status |-> "ok", message |-> "", claims |-> tried.claims]

verifyAccessToken(token) == verifyToken(token, TokenSecret, "access")

verifyRefreshToken(token) == verifyToken(token, RefreshTokenSecret, "refresh")

\* generateTokenPair(profile): the TokenResponse
generateTokenPair(profile) ==
    [ accessToken      |-> JwtSign(buildPayload(profile, "access"),
                                   TokenSecret, TokenExpiresIn),
      refreshToken     |-> JwtSign(buildPayload(profile, "refresh"),
                                   RefreshTokenSecret, RefreshExpiresIn),
      expiresIn        |-> TokenExpiresIn,
      refreshExpiresIn |-> RefreshExpiresIn ]

\* Tokens that were not issued by generateTokenPair: text that is no JWT, a
\* token signed with a key of the sender's, and tokens signed with the
\* service's secrets whose payload is a string or carries no tokenType
ForeignTokens ==
    { MalformedToken,
      [ JwtSign(buildPayload(CHOOSE p \in Profiles : p.id = "u1", "access"),
                "attacker-key", TokenExpiresIn) EXCEPT !.claims.iat = <<0>>,
                                                        !.claims.exp = <<1>> ],
      JwtSignString(TokenSecret),
      JwtSignString(RefreshTokenSecret),
      [ wellFormed |-> TRUE, kind |-> "object",
        claims |-> [buildPayload(CHOOSE p \in Profiles : p.id = "u2", "access")
                      EXCEPT !.tokenType = <<>>],
        sig |-> TokenSecret ] }

IssuedTokens ==
    {i.response.accessToken : i \in issued}
      \cup {i.response.refreshToken : i \in issued}

\* The tokens a caller may present
PresentableTokens == IssuedTokens \cup ForeignTokens

NoToken == MalformedToken

NoProfile ==
    [ id |-> "", email |-> "", tenantId |-> <<>>, roles |-> <<>>,
      name |-> <<>>, permissions |-> <<>> ]

\* The record of a call: what was presented and what came back
Call(op, token, tenant, status, message, claims, profile) ==
    [ op |-> op, token |-> token, tenant |-> tenant, status |-> status,
      message |-> message, claims |-> claims, profile |-> profile ]

AuthInit ==
    /\ env \in [ JWT_SECRET : EnvValues, JWT_REFRESH_SECRET : EnvValues,
                 TENANT_DB_PREFIX : {<<>>} ]
    /\ now = 0
    /\ issued = {}
    /\ lastCall = Call("none", NoToken, <<>>, "none", "", NoClaims, NoProfile)

\* A call of generateTokenPair(profile), as made by login and refresh
GenerateTokenPair(profile) ==
    /\ ServiceConstructed
    /\ Cardinality(issued) < MaxPairs
    /\ issued' = issued \cup
                   {[profile |-> profile, response |-> generateTokenPair(profile)]}
    /\ lastCall' = Call("generateTokenPair",
                        generateTokenPair(profile).accessToken, <<>>,
                        "ok", "", NoClaims, NoProfile)
    /\ UNCHANGED <<env, now>>
    /\ UNCHANGED <<regVars, appVars>>

\* A call of verifyAccessToken(token)
VerifyAccessToken(token) ==
    /\ ServiceConstructed
    /\ LET r == verifyAccessToken(token) IN
         lastCall' = Call("verifyAccessToken", token, <<>>, r.status,
                          r.message, r.claims, NoProfile)
    /\ UNCHANGED <<env, now, issued>>
    /\ UNCHANGED <<regVars, appVars>>

\* A call of verifyRefreshToken(token), as made by POST /auth/refresh
VerifyRefreshToken(token) ==
    /\ ServiceConstructed
    /\ LET r == verifyRefreshToken(token) IN
         lastCall' = Call("verifyRefreshToken", token, <<>>, r.status,
                          r.message, r.claims, NoProfile)
    /\ UNCHANGED <<env, now, issued>>
    /\ UNCHANGED <<regVars, appVars>>

\* A day passes
Tick ==
    /\ now < MaxTime
    /\ now' = now + 1
    /\ UNCHANGED <<env, issued, lastCall>>
    /\ UNCHANGED <<regVars, appVars>>

----------------------------------------------------------------------------
(* auth/jwt-strategy *)

\* The parts authHeader.split(' ') gives: a word, or the text of a token
Word(text) == [text |-> text, token |-> <<>>]

TokenText(token) == [text |-> "<jwt>", token |-> <<token>>]

\* The Authorization header values that are not `Bearer <token>`: absent,
\* empty, one part, an empty token, another scheme, three parts
OtherAuthorizationHeaders ==
    { <<>>,
      << <<Word("")>> >>,
      << <<Word("Bearer")>> >>,
      << <<Word("Bearer"), Word("")>> >>,
      << <<Word("bearer"), TokenText(MalformedToken)>> >>,
      << <<Word("Basic"), TokenText(MalformedToken)>> >>,
      << <<Word("Bearer"), TokenText(MalformedToken), Word("x")>> >> }

Bearer(token) == << <<Word("Bearer"), TokenText(token)>> >>

\* The x-tenant-id header values of the requests that reach the strategy
AuthTenantHeaders ==
    { <<>>,
      << <<"A","_","B">> >>,
      << <<"c">> >> }

\* An issued access token sent under another scheme
WrongSchemeHeaders ==
    { << <<Word("Basic"), TokenText(i.response.accessToken)>> >> :
        i \in issued }

Requests ==
    [ authorization : OtherAuthorizationHeaders
                        \cup WrongSchemeHeaders
                        \cup {Bearer(t) : t \in PresentableTokens},
      tenantHeader  : AuthTenantHeaders ]

\* The string a part stands for, as a token to verify
PartToken(part) == IF part.token = <<>> THEN MalformedToken ELSE part.token[1]

\* extractToken that takes the second of two parts whatever the first is
extractTokenAnyScheme(request) ==
    IF request.authorization = <<>> \/ request.authorization[1] = <<Word("")>>
    THEN [thrown |-> FALSE, found |-> FALSE, token |-> NoToken]
    ELSE LET parts == request.authorization[1] IN
         IF Len(parts) # 2
         THEN [thrown |-> TRUE, found |-> FALSE, token |-> NoToken]
         ELSE [thrown |-> FALSE, found |-> parts[2] # Word(""),
               token |-> PartToken(parts[2])]

\* extractToken(request): the bearer token, nothing, or Unauthorized thrown
extractToken(request) ==
    IF request.authorization = <<>> \/ request.authorization[1] = <<Word("")>>
    THEN [thrown |-> FALSE, found |-> FALSE, token |-> NoToken]
    ELSE LET parts == request.authorization[1] IN
         IF Len(parts) # 2 \/ parts[1] # Word("Bearer")
         THEN [thrown |-> TRUE, found |-> FALSE, token |-> NoToken]
         ELSE [thrown |-> FALSE, found |-> parts[2] # Word(""),
               token |-> PartToken(parts[2])]

\* The LmsUserProfile authenticate builds from the payload
ProfileOf(claims, normalizedHeaderTenant) ==
    [ id          |-> claims.sub,
      email       |-> claims.email,
      tenantId    |-> IF claims.tenantId # <<>>
                      THEN sanitizeTenantId(claims.tenantId)
                      ELSE normalizedHeaderTenant,
      roles       |-> IF claims.roles # <<>> THEN claims.roles[1]
                      ELSE <<"student">>,
      name        |-> IF claims.name # <<>> THEN claims.name
                      ELSE <<claims.email>>,
      permissions |-> claims.permissions ]

\* authenticate comparing the raw payload tenant with the raw header tenant
authenticateRawTenants(request) ==
    LET extracted == extractToken(request)
        token     == extracted.token
        tenant    == request.tenantHeader
        Fail(status, message) ==
            Call("authenticate", token, tenant, status, message, NoClaims,
                 NoProfile)
    IN
    IF extracted.thrown
    THEN Fail("Unauthorized", "Authorization header is not of type Bearer")
    ELSE IF ~extracted.found
    THEN Fail("Unauthorized", "Authorization header not found")
    ELSE LET decoded == JwtVerify(token, TokenSecret) IN
    IF decoded.thrown \/ decoded.kind = "string"
    THEN Fail("Unauthorized", "Invalid access token")
    ELSE LET ex == extractTenantId(tenant) IN
    IF ex.status # "ok"
    THEN Fail("BadRequest", "x-tenant-id")
    ELSE LET normalizedHeaderTenant == sanitizeTenantId(ex.tenantId)
             payloadTenant == decoded.claims.tenantId
         IN
    IF payloadTenant # <<>> /\ payloadTenant # ex.tenantId
    THEN Fail("Forbidden", "Token tenant mismatch")
    ELSE Call("authenticate", token, tenant, "ok", "", decoded.claims,
              ProfileOf(decoded.claims, normalizedHeaderTenant))

\* authenticate comparing the tenants before it verifies the token
authenticateTenantFirst(request) ==
    LET extracted == extractToken(request)
        token     == extracted.token
        tenant    == request.tenantHeader
        Fail(status, message) ==
            Call("authenticate", token, tenant, status, message, NoClaims,
                 NoProfile)
    IN
    IF extracted.thrown
    THEN Fail("Unauthorized", "Authorization header is not of type Bearer")
    ELSE IF ~extracted.found
    THEN Fail("Unauthorized", "Authorization header not found")
    ELSE LET ex == extractTenantId(tenant) IN
    IF ex.status # "ok"
    THEN Fail("BadRequest", "x-tenant-id")
    ELSE LET normalizedHeaderTenant == sanitizeTenantId(ex.tenantId)
             payloadTenant == token.claims.tenantId
         IN
    IF payloadTenant # <<>>
         /\ sanitizeTenantId(payloadTenant) # normalizedHeaderTenant
    THEN Fail("Forbidden", "Token tenant mismatch")
    ELSE LET decoded == JwtVerify(token, TokenSecret) IN
    IF decoded.thrown \/ decoded.kind = "string"
    THEN Fail("Unauthorized", "Invalid access token")
    ELSE Call("authenticate", token, tenant, "ok", "", decoded.claims,
              ProfileOf(decoded.claims, normalizedHeaderTenant))

\* authenticate that looks the user of the token up and rejects the token
\* of a user who is no longer stored as active
authenticateActiveUsers(request) ==
    LET extracted == extractToken(request)
        token     == extracted.token
        tenant    == request.tenantHeader
        Fail(status, message) ==
            Call("authenticate", token, tenant, status, message, NoClaims,
                 NoProfile)
    IN
    IF extracted.thrown
    THEN Fail("Unauthorized", "Authorization header is not of type Bearer")
    ELSE IF ~extracted.found
    THEN Fail("Unauthorized", "Authorization header not found")
    ELSE LET decoded == JwtVerify(token, TokenSecret) IN
    IF decoded.thrown \/ decoded.kind = "string"
    THEN Fail("Unauthorized", "Invalid access token")
    ELSE LET ex == extractTenantId(tenant) IN
    IF ex.status # "ok"
    THEN Fail("BadRequest", "x-tenant-id")
    ELSE LET normalizedHeaderTenant == sanitizeTenantId(ex.tenantId)
             payloadTenant == decoded.claims.tenantId
         IN
    IF payloadTenant # <<>>
         /\ sanitizeTenantId(payloadTenant) # normalizedHeaderTenant
    THEN Fail("Forbidden", "Token tenant mismatch")
    ELSE IF ~\E d \in DOMAIN users : \E i \in DOMAIN users[d] :
                /\ users[d][i].id = decoded.claims.sub
                /\ users[d][i].status = "active"
    THEN Fail("Forbidden", "User account is not active")
    ELSE Call("authenticate", token, tenant, "ok", "", decoded.claims,
              ProfileOf(decoded.claims, normalizedHeaderTenant))

\* JWTStrategy.authenticate(request): the outcome as a call record
authenticate(request) ==
    LET extracted == extractToken(request)
        token     == extracted.token
        tenant    == request.tenantHeader
        Fail(status, message) ==
            Call("authenticate", token, tenant, status, message, NoClaims,
                 NoProfile)
    IN
    IF extracted.thrown
    THEN Fail("Unauthorized", "Authorization header is not of type Bearer")
    ELSE IF ~extracted.found
    THEN Fail("Unauthorized", "Authorization header not found")
    ELSE LET decoded == JwtVerify(token, TokenSecret) IN
    IF decoded.thrown \/ decoded.kind = "string"
    THEN Fail("Unauthorized", "Invalid access token")
    ELSE LET ex == extractTenantId(tenant) IN
    IF ex.status # "ok"
    THEN Fail("BadRequest", "x-tenant-id")
    ELSE LET normalizedHeaderTenant == sanitizeTenantId(ex.tenantId)
             payloadTenant == decoded.claims.tenantId
         IN
    IF payloadTenant # <<>>
         /\ sanitizeTenantId(payloadTenant) # normalizedHeaderTenant
    THEN Fail("Forbidden", "Token tenant mismatch")
    ELSE Call("authenticate", token, tenant, "ok", "", decoded.claims,
              ProfileOf(decoded.claims, normalizedHeaderTenant))

\* A request reaches the 'jwt' authentication strategy
Authenticate(request) ==
    /\ lastCall' = authenticate(request)
    /\ UNCHANGED <<env, now, issued>>
    /\ UNCHANGED <<regVars, appVars>>

----------------------------------------------------------------------------
(* RoleBasedAuthorizationProvider *)

ROLE_HIERARCHY ==
    [ r \in {"superAdmin", "tenantAdmin", "instructor", "student"} |->
        CASE r = "superAdmin"  -> 4
          [] r = "tenantAdmin" -> 3
          [] r = "instructor"  -> 2
          [] r = "student"     -> 1 ]

\* The members every object inherits from Object.prototype: ROLE_HIERARCHY is
\* an object literal, so ROLE_HIERARCHY[role] of these names is a function
\* (an object for __proto__) and not undefined
ObjectPrototypeKeys ==
    { "constructor", "toString", "toLocaleString", "valueOf",
      "hasOwnProperty", "isPrototypeOf", "propertyIsEnumerable", "__proto__",
      "__defineGetter__", "__defineSetter__", "__lookupGetter__",
      "__lookupSetter__" }

\* A number is a sequence of one integer, NaN the empty sequence
NaN == <<>>

\* ROLE_HIERARCHY[role] ?? 0, as Math.max reads it: the rank, NaN for an
\* inherited member, 0 for undefined
UserRankOf(role) ==
    IF role \in DOMAIN ROLE_HIERARCHY THEN <<ROLE_HIERARCHY[role]>>
    ELSE IF role \in ObjectPrototypeKeys THEN NaN
    ELSE <<0>>

\* Math.max(a, b): NaN when either is NaN
MathMax(a, b) ==
    IF a = NaN \/ b = NaN THEN NaN
    ELSE IF a[1] >= b[1] THEN a ELSE b

\* userRoles.reduce((acc, role) => Math.max(acc, ROLE_HIERARCHY[role] ?? 0), 0)
RECURSIVE ReduceMaxRank(_, _)
ReduceMaxRank(userRoles, acc) ==
    IF userRoles = <<>> THEN acc
    ELSE ReduceMaxRank(Tail(userRoles),
                       MathMax(acc, UserRankOf(Head(userRoles))))

\* maxUserRole >= (ROLE_HIERARCHY[role] ?? Number.MAX_SAFE_INTEGER): false
\* when maxUserRole is NaN; false for an inherited member, which compares as
\* NaN; false for undefined, because no rank reaches MAX_SAFE_INTEGER
ReachesRankOf(maxUserRole, role) ==
    /\ maxUserRole # NaN
    /\ role \in DOMAIN ROLE_HIERARCHY
    /\ maxUserRole[1] >= ROLE_HIERARCHY[role]

\* isRoleAllowed requiring the rank of every allowed role
isRoleAllowedEvery(userRoles, allowedRoles) ==
    LET maxUserRole == ReduceMaxRank(userRoles, <<0>>) IN
    \A i \in DOMAIN allowedRoles : ReachesRankOf(maxUserRole, allowedRoles[i])

\* isRoleAllowed requiring one of the allowed roles itself
isRoleAllowedExact(userRoles, allowedRoles) ==
    \E i \in DOMAIN allowedRoles, j \in DOMAIN userRoles :
        userRoles[j] = allowedRoles[i]

\* isRoleAllowed(userRoles, allowedRoles)
isRoleAllowed(userRoles, allowedRoles) ==
    LET maxUserRole == ReduceMaxRank(userRoles, <<0>>) IN
    \E i \in DOMAIN allowedRoles : ReachesRankOf(maxUserRole, allowedRoles[i])

\* TenantContextMiddlewareProvider: what it binds to CURRENT_TENANT_ID, or
\* the BadRequest that ends the request
TenantContextMiddleware(header) ==
    LET ex == extractTenantId(header) IN
    IF ex.status # "ok"
    THEN [status |-> ex.status, bound |-> <<>>]
    ELSE [status |-> "ok", bound |-> <<sanitizeTenantId(ex.tenantId)>>]

\* authorize testing the tenants before the superAdmin role
authorizeTenantFirst(principal, invocationTenant, allowedRoles) ==
    IF principal = <<>> THEN "DENY"
    ELSE LET p == principal[1] IN
    IF invocationTenant # <<>> /\ p.tenantId # <<>>
         /\ p.tenantId # invocationTenant[1]
    THEN "DENY"
    ELSE IF \E i \in DOMAIN p.roles : p.roles[i] = "superAdmin"
    THEN "ALLOW"
    ELSE LET allowed == IF allowedRoles = <<>> THEN <<>> ELSE allowedRoles[1]
         IN
    IF Len(allowed) = 0 THEN "ALLOW"
    ELSE IF isRoleAllowed(p.roles, allowed) THEN "ALLOW"
    ELSE "DENY"

\* authorize testing the allowed roles before the tenants
authorizeRolesFirst(principal, invocationTenant, allowedRoles) ==
    IF principal = <<>> THEN "DENY"
    ELSE LET p == principal[1] IN
    IF \E i \in DOMAIN p.roles : p.roles[i] = "superAdmin"
    THEN "ALLOW"
    ELSE LET allowed == IF allowedRoles = <<>> THEN <<>> ELSE allowedRoles[1]
         IN
    IF Len(allowed) = 0 THEN "ALLOW"
    ELSE IF invocationTenant # <<>> /\ p.tenantId # <<>>
              /\ p.tenantId # invocationTenant[1]
    THEN "DENY"
    ELSE IF isRoleAllowed(p.roles, allowed) THEN "ALLOW"
    ELSE "DENY"

\* authorize(context, metadata), with context.principals[0] as `principal`,
\* the CURRENT_TENANT_ID binding as `invocationTenant` and
\* metadata.allowedRoles as `allowedRoles` (each absent or present)
authorize(principal, invocationTenant, allowedRoles) ==
    IF principal = <<>> THEN "DENY"
    ELSE LET p == principal[1] IN
    IF \E i \in DOMAIN p.roles : p.roles[i] = "superAdmin"
    THEN "ALLOW"
    ELSE IF invocationTenant # <<>> /\ p.tenantId # <<>>
              /\ p.tenantId # invocationTenant[1]
    THEN "DENY"
    ELSE LET allowed == IF allowedRoles = <<>> THEN <<>> ELSE allowedRoles[1]
         IN
    IF Len(allowed) = 0 THEN "ALLOW"
    ELSE IF isRoleAllowed(p.roles, allowed) THEN "ALLOW"
    ELSE "DENY"

\* The role lists an identity may carry; `guest` and `constructor` are
\* outside the hierarchy
PrincipalRoles ==
    { <<>>, <<"student">>, <<"instructor">>, <<"tenantAdmin">>,
      <<"superAdmin">>, <<"student", "tenantAdmin">>,
      <<"instructor", "superAdmin">>, <<"guest">>,
      <<"constructor", "tenantAdmin">> }

\* The tenants of identities: authenticate sets a sanitized tenant id
PrincipalTenants ==
    { sanitizeTenantId(p.tenantId) : p \in Profiles }

\* context.principals[0]: no identity, or an LmsUserProfile
Principals ==
    { <<>> } \cup
    { << [ id |-> "u", email |-> "u@x.com", tenantId |-> t, roles |-> r,
           name |-> <<>>, permissions |-> <<>> ] >> :
        t \in PrincipalTenants, r \in PrincipalRoles }

\* CURRENT_TENANT_ID: not bound, or what the middleware bound for a header
InvocationTenants ==
    { <<>> } \cup
    { TenantContextMiddleware(h).bound :
        h \in {x \in TenantHeaders : TenantContextMiddleware(x).status = "ok"} }

\* metadata.allowedRoles: absent, empty, or the roles an endpoint declares
AllowedRoleLists ==
    { <<>>, << <<>> >>, << <<"student">> >>, << <<"instructor">> >>,
      << <<"tenantAdmin">> >>, << <<"superAdmin">> >>,
      << <<"tenantAdmin", "instructor">> >>,
      << <<"student", "superAdmin">> >> }

NoAuthzCall ==
    [ principal |-> <<>>, invocationTenant |-> <<>>, allowedRoles |-> <<>>,
      pc |-> "idle", decision |-> "none" ]

AuthzIdle == authz = NoAuthzCall

\* The authorization interceptor calls the authorizer for an invocation:
\* authorize up to its await.  Without an identity it answers DENY at once;
\* with one it starts invocationContext.get(CURRENT_TENANT_ID), whose answer
\* will be `invocationTenant`, and is suspended with no decision.
Authorize(principal, invocationTenant, allowedRoles) ==
    /\ authz.pc # "invocationContext.get"
    /\ authz' = [ principal        |-> principal,
                  invocationTenant |-> invocationTenant,
                  allowedRoles     |-> allowedRoles,
                  pc               |-> IF principal = <<>> THEN "done"
                                       ELSE "invocationContext.get",
                  decision         |-> IF principal = <<>> THEN "DENY"
                                       ELSE "none" ]
    /\ UNCHANGED <<regVars, authVars, db, last, svcVars>>

\* invocationContext.get answers the suspended authorizer, which runs to its
\* end: the superAdmin test, the comparison of tenants, the allowed roles
AuthorizeResumes ==
    /\ authz.pc = "invocationContext.get"
    /\ authz' = [authz EXCEPT
                   !.pc = "done",
                   !.decision = authorize(authz.principal,
                                          authz.invocationTenant,
                                          authz.allowedRoles)]
    /\ UNCHANGED <<regVars, authVars, db, last, svcVars>>

----------------------------------------------------------------------------
(* auth/password.service: BcryptHasher *)

\* bcryptjs hash(plain, salt): a digest of the plaintext
BcryptHash(plain) == <<"$">> \o plain

\* bcryptjs compare(plain, hashed): the digest is one of this plaintext
BcryptCompare(plain, hashed) == hashed = BcryptHash(plain)

\* BcryptHasher.hashPassword(plain)
hashPassword(plain) ==
    IF plain = <<>>
    THEN [status |-> "Error", digest |-> <<>>]
    ELSE [status |-> "ok", digest |-> BcryptHash(plain)]

\* comparePassword without the check of its arguments
comparePasswordNoGuard(plain, hashed) ==
    [status |-> "ok", value |-> BcryptCompare(plain, hashed)]

\* BcryptHasher.comparePassword(plain, hashed)
comparePassword(plain, hashed) ==
    IF plain = <<>> \/ hashed = <<>>
    THEN [status |-> "ok", value |-> FALSE]
    ELSE [status |-> "ok", value |-> BcryptCompare(plain, hashed)]

\* The sequences over an alphabet of length 1..n
RECURSIVE Strings(_, _)
Strings(alphabet, n) ==
    IF n = 0 THEN {}
    ELSE LET shorter == Strings(alphabet, n - 1) IN
         {<<c>> : c \in alphabet} \cup shorter
           \cup {Append(w, c) : w \in shorter, c \in alphabet}

\* The plaintexts given to the hasher: the empty one and short ones
Plaintexts == {<<>>} \cup Strings({"a", "b"}, MaxLen)

\* The digests given to the hasher: the empty one, the digest of every
\* plaintext (of the empty one as well), and text that is no digest
Digests == {<<>>, <<"x">>} \cup {BcryptHash(p) : p \in Plaintexts}

\* A call of hashPassword(plain)
HashPassword(plain) ==
    /\ probe' = <<[op |-> "hashPassword", plain |-> plain, hashed |-> <<>>,
                   result |-> hashPassword(plain)]>>
    /\ UNCHANGED <<regVars, authVars, authz, db, last, users, calls, cms, pipe>>

\* A call of comparePassword(plain, hashed)
ComparePassword(plain, hashed) ==
    /\ probe' = <<[op |-> "comparePassword", plain |-> plain,
                   hashed |-> hashed,
                   result |-> comparePassword(plain, hashed)]>>
    /\ UNCHANGED <<regVars, authVars, authz, db, last, users, calls, cms, pipe>>

\* The tenant ids given to the tenant utilities: every text of the pattern
\* over a lower-case letter, an upper-case letter, a digit and both marks
TenantIds == Strings({"a", "B", "0", "-", "_"}, MaxLen)

\* A tenant id goes through sanitizeTenantId, once and twice, and through
\* buildTenantDatabaseName, as it is and sanitized
SanitizeTenant(tenantId) ==
    /\ probe' = <<[op |-> "sanitizeTenantId", tenantId |-> tenantId,
                   once  |-> sanitizeTenantId(tenantId),
                   twice |-> sanitizeTenantId(sanitizeTenantId(tenantId)),
                   database |-> buildTenantDatabaseName(tenantId),
                   databaseOfSanitized |->
                       buildTenantDatabaseName(sanitizeTenantId(tenantId))]>>
    /\ UNCHANGED <<regVars, authVars, authz, db, last, users, calls, cms, pipe>>

----------------------------------------------------------------------------
(* controllers/auth.controller: AuthController, and UserSettingsService.   *)
(* A handler is followed await by await: one step is the awaited call      *)
(* taking effect and the handler's own code up to its next await.          *)

\* The x-tenant-id header values of the requests to /auth
AccountTenantHeaders ==
    { <<>>,
      << <<"A","-","B">> >>,
      << <<"a","_","b">> >>,
      << <<"c">> >> }

\* datasources.mongoTenant of a request: the name of the database
\* TenantDataSourceProvider binds the repositories of the request to
TenantDatabase(header) ==
    buildTenantDatabaseName(extractTenantId(header).tenantId)

DatabaseNames ==
    {TenantDatabase(h) : h \in {x \in AccountTenantHeaders :
                                   extractTenantId(x).status = "ok"}}

\* The calls in flight without call i
WithoutCall(i) ==
    [j \in 1..(Len(calls) - 1) |-> IF j < i THEN calls[j] ELSE calls[j + 1]]

\* userRepository.create: the stored user, with the defaults of the model
NewUser(id, email, password, roles, tenantId) ==
    [ id |-> id, email |-> email, password |-> password,
      firstName |-> <<"A","n","n">>, lastName |-> <<>>,
      roles |-> roles, tenantId |-> tenantId, status |-> "active" ]

\* Array.from(new Set(roles))
RECURSIVE Unique(_)
Unique(s) ==
    IF s = <<>> THEN <<>>
    ELSE LET front == Unique(SubSeq(s, 1, Len(s) - 1)) IN
         IF s[Len(s)] \in Range(front) THEN front
         ELSE Append(front, s[Len(s)])

\* invalid.join(', ')
RECURSIVE JoinComma(_)
JoinComma(names) ==
    IF names = <<>> THEN ""
    ELSE IF Len(names) = 1 THEN names[1]
    ELSE names[1] \o ", " \o JoinComma(Tail(names))

\* validateRoles that lets every role name through
validateRolesAny(roles) ==
    IF roles = <<>> \/ roles[1] = <<>>
    THEN [status |-> "ok", roles |-> <<"student">>, message |-> ""]
    ELSE [status |-> "ok", roles |-> Unique(roles[1]), message |-> ""]

\* AuthController.validateRoles(roles): roles is the optional body.roles
validateRoles(roles) ==
    LET NotAllowed(role) ==
            role \notin {"tenantAdmin", "instructor", "student"}
    IN
    IF roles = <<>> \/ roles[1] = <<>>
    THEN [status |-> "ok", roles |-> <<"student">>, message |-> ""]
    ELSE IF SelectSeq(roles[1], NotAllowed) # <<>>
    THEN [status |-> "BadRequest", roles |-> <<>>,
          message |-> "Invalid roles: "
                        \o JoinComma(SelectSeq(roles[1], NotAllowed))]
    ELSE [status |-> "ok", roles |-> Unique(roles[1]), message |-> ""]

\* AuthController.userToProfile(user)
userToProfile(user) ==
    [ id |-> user.id, email |-> user.email, tenantId |-> user.tenantId,
      roles |-> user.roles,
      name |-> Trim(user.firstName \o <<" ">> \o user.lastName),
      permissions |-> <<>> ]

\* AuthController.formatUser(user): the fields of the user the response
\* carries (createdAt and updatedAt are not followed)
formatUser(user) ==
    [ id |-> user.id, email |-> user.email, firstName |-> user.firstName,
      lastName |-> user.lastName, roles |-> user.roles,
      status |-> user.status, tenantId |-> user.tenantId ]

\* AuthController.buildAuthResponse(user)
buildAuthResponse(user) ==
    [ user   |-> formatUser(user),
      tokens |-> generateTokenPair(userToProfile(user)) ]

\* userRepository.findOne({where: {email}}) on the database of the request:
\* the first user with the email, if any
FindByEmail(store, email) ==
    LET found == {i \in DOMAIN store : store[i].email = email} IN
    IF found = {} THEN <<>>
    ELSE <<store[CHOOSE i \in found : \A j \in found : i <= j]>>

\* userRepository.findById(id) on the database of the request
FindUserById(store, id) ==
    LET found == {i \in DOMAIN store : store[i].id = id} IN
    IF found = {} THEN <<>> ELSE <<store[CHOOSE i \in found : TRUE]>>

\* The ids userRepository.create gives the users, in order of creation
UserIds == <<"u1", "u2", "u3", "u4">>

UsersCreated == {<<d, i>> : d \in DatabaseNames, i \in 1..MaxUsers}

CountUsers(allUsers) ==
    Cardinality({p \in UsersCreated : p[2] \in DOMAIN allUsers[p[1]]})

\* The handler of a request to /auth or /tenant/me/password, about to run.
\* roles, hashed, user and claims are what it holds across its awaits.
AuthCall(ticket, op, header, body) ==
    [ ticket |-> ticket, op |-> op, pc |-> "start", header |-> header,
      body |-> body, roles |-> <<>>, hashed |-> <<>>, user |-> <<>>,
      claims |-> <<>> ]

\* What a step of a handler leaves: the handler suspended at its next
\* await, ended by an error, or returned with its response; and the users
AuthAwait(call, pc, allUsers) ==
    [call |-> [call EXCEPT !.pc = pc], status |-> "", message |-> "",
     response |-> <<>>, users |-> allUsers]

AuthFails(call, status, message, allUsers) ==
    [call |-> [call EXCEPT !.pc = "done"], status |-> status,
     message |-> message, response |-> <<>>, users |-> allUsers]

AuthDone(call, response, allUsers) ==
    [call |-> [call EXCEPT !.pc = "done"], status |-> "ok", message |-> "",
     response |-> response, users |-> allUsers]

\* The first line of register, login and refresh
AuthEnter(call, next, allUsers) ==
    IF extractTenantId(call.header).status # "ok"
    THEN AuthFails(call, "BadRequest", "x-tenant-id", allUsers)
    ELSE AuthAwait(call, next, allUsers)

HeaderTenant(call) == sanitizeTenantId(extractTenantId(call.header).tenantId)

\* The last await of register, login and refresh: buildAuthResponse(user)
AuthRespond(call, allUsers) ==
    AuthDone(call, <<buildAuthResponse(call.user[1])>>, allUsers)

\* A handler calls passwordHasher.hashPassword(plain) and awaits it:
\* hashPassword runs to its own first await, of bcrypt genSalt, or throws on
\* the empty plaintext, which the handler learns when its await is answered
AwaitHashPassword(call, plain, allUsers) ==
    IF hashPassword(plain).status # "ok"
    THEN AuthAwait(call, "passwordHasher.hashPassword", allUsers)
    ELSE AuthAwait(call, "bcrypt.genSalt", allUsers)

\* AuthController.register
register(call, allUsers) ==
    LET database == TenantDatabase(call.header)
        normalizedEmail == ToLowerCase(call.body.email)
    IN
    CASE call.pc = "start" ->
           AuthEnter(call, "userRepository.findOne", allUsers)
      [] call.pc = "userRepository.findOne" ->
           IF FindByEmail(allUsers[database], normalizedEmail) # <<>>
           THEN AuthFails(call, "Conflict", "Email is already registered",
                          allUsers)
           ELSE LET roles == validateRoles(call.body.roles) IN
                IF roles.status # "ok"
                THEN AuthFails(call, roles.status, roles.message, allUsers)
                ELSE AwaitHashPassword([call EXCEPT !.roles = roles.roles],
                                       call.body.password, allUsers)
      [] call.pc = "passwordHasher.hashPassword" ->
           AuthFails(call, "InternalServerError", "Password cannot be empty",
                     allUsers)
      [] call.pc = "bcrypt.genSalt" ->
           AuthAwait(call, "bcrypt.hash", allUsers)
      [] call.pc = "bcrypt.hash" ->
           AuthAwait([call EXCEPT !.hashed =
                         hashPassword(call.body.password).digest],
                     "userRepository.create", allUsers)
      [] call.pc = "userRepository.create" ->
           LET user == NewUser(UserIds[CountUsers(allUsers) + 1],
                               normalizedEmail, call.hashed, call.roles,
                               HeaderTenant(call))
           IN AuthAwait([call EXCEPT !.user = <<user>>],
                        "tokenService.generateTokenPair",
                        [allUsers EXCEPT ![database] = Append(@, user)])
      [] call.pc = "tokenService.generateTokenPair" ->
           AuthRespond(call, allUsers)

\* AuthController.login
login(call, allUsers) ==
    CASE call.pc = "start" ->
           AuthEnter(call, "userRepository.findOne", allUsers)
      [] call.pc = "userRepository.findOne" ->
           LET user == FindByEmail(allUsers[TenantDatabase(call.header)],
                                   ToLowerCase(call.body.email))
           IN
           IF user = <<>>
           THEN AuthFails(call, "Unauthorized", "Invalid credentials",
                          allUsers)
           ELSE IF HeaderTenant(call) # user[1].tenantId
           THEN AuthFails(call, "Forbidden",
                          "User does not belong to this tenant", allUsers)
           ELSE IF user[1].status # "" /\ user[1].status # "active"
           THEN AuthFails(call, "Forbidden", "User account is not active",
                          allUsers)
           ELSE AuthAwait([call EXCEPT !.user = user],
                          "passwordHasher.comparePassword", allUsers)
      [] call.pc = "passwordHasher.comparePassword" ->
           IF ~comparePassword(call.body.password,
                               call.user[1].password).value
           THEN AuthFails(call, "Unauthorized", "Invalid credentials",
                          allUsers)
           ELSE AuthAwait(call, "tokenService.generateTokenPair", allUsers)
      [] call.pc = "tokenService.generateTokenPair" ->
           AuthRespond(call, allUsers)

\* AuthController.refresh
refresh(call, allUsers) ==
    CASE call.pc = "start" ->
           AuthEnter(call, "tokenService.verifyRefreshToken", allUsers)
      [] call.pc = "tokenService.verifyRefreshToken" ->
           LET verified == verifyRefreshToken(call.body.refreshToken) IN
           IF verified.status # "ok"
           THEN AuthFails(call, verified.status, verified.message, allUsers)
           ELSE IF verified.claims.tenantId # <<>>
                     /\ HeaderTenant(call) # verified.claims.tenantId
           THEN AuthFails(call, "Forbidden", "Refresh token tenant mismatch",
                          allUsers)
           ELSE AuthAwait([call EXCEPT !.claims = <<verified.claims>>],
                          "userRepository.findById", allUsers)
      [] call.pc = "userRepository.findById" ->
           LET user == FindUserById(allUsers[TenantDatabase(call.header)],
                                    call.claims[1].sub)
           IN
           IF user = <<>>
           THEN AuthFails(call, "NotFound", "Entity not found", allUsers)
           ELSE IF user[1].status # "active"
           THEN AuthFails(call, "Forbidden",
                          "User is not allowed to refresh tokens", allUsers)
           ELSE AuthAwait([call EXCEPT !.user = user],
                          "tokenService.generateTokenPair", allUsers)
      [] call.pc = "tokenService.generateTokenPair" ->
           AuthRespond(call, allUsers)

\* PASSWORD_UPDATE_SCHEMA and the check of updatePassword: minLength
MinPasswordLength == 8

\* UserSettingsController.requireAuthenticatedUser() for the profile
\* injected as SecurityBindings.USER (body.profile: absent, or the profile
\* the strategy has bound to the request)
requireAuthenticatedUser(call) ==
    LET ex == extractTenantId(call.header) IN
    IF ex.status # "ok"
    THEN [status |-> "BadRequest", message |-> "x-tenant-id"]
    ELSE IF call.body.profile = <<>>
    THEN [status |-> "Unauthorized", message |-> "Authentication required"]
    ELSE LET tenantHeader == sanitizeTenantId(ex.tenantId)
             profile  == call.body.profile[1]
             tenantId == IF profile.tenantId # <<>>
                         THEN sanitizeTenantId(profile.tenantId)
                         ELSE tenantHeader
         IN
    IF profile.id = ""
    THEN [status |-> "InternalServerError",
          message |-> "Authenticated user context missing"]
    ELSE IF tenantId = <<>>
    THEN [status |-> "BadRequest", message |-> "Tenant context missing"]
    ELSE IF tenantId # tenantHeader
    THEN [status |-> "Forbidden",
          message |-> "User does not belong to this tenant"]
    ELSE [status |-> "ok", message |-> "", userId |-> profile.id,
          tenantId |-> tenantId]

\* UserSettingsService.loadOwnedUser(userId, tenantId), once
\* userRepository.findById has answered: the handler holds the user and
\* goes on to `next`
loadOwnedUser(call, current, next, allUsers) ==
    LET user == FindUserById(allUsers[TenantDatabase(call.header)],
                             current.userId)
    IN
    IF user = <<>>
    THEN AuthFails(call, "NotFound", "Entity not found", allUsers)
    ELSE IF user[1].tenantId # current.tenantId
    THEN AuthFails(call, "Forbidden", "User does not belong to this tenant",
                   allUsers)
    ELSE AuthAwait([call EXCEPT !.user = user], next, allUsers)

\* UserSettingsController.toView(user): the fields of the user the response
\* carries that are followed
toView(user) ==
    [ id |-> user.id, email |-> user.email, firstName |-> user.firstName,
      lastName |-> user.lastName, roles |-> user.roles,
      tenantId |-> user.tenantId ]

\* The properties of a user that are followed
UserProperties ==
    {"firstName", "lastName", "roles", "tenantId", "email", "password",
     "status"}

\* A body of PATCH /tenant/me/profile that carries none of them
NoProfileChange == [f \in UserProperties |-> <<>>]

\* userRepository.updateById(userId, {...payload, socialLinks, updatedAt}):
\* every property the payload carries replaces the stored one, whatever
\* the property is; the others stay as they are
StoreProfile(user, payload) ==
    [f \in DOMAIN user |->
        IF f \in DOMAIN payload
        THEN IF payload[f] # <<>> THEN payload[f][1] ELSE user[f]
        ELSE user[f]]

\* UserSettingsController.updateProfile, which calls
\* UserSettingsService.updateProfile(userId, tenantId, payload); the payload
\* is the body of the request as it was sent (PROFILE_UPDATE_SCHEMA admits
\* properties it does not list)
updateProfile(call, allUsers) ==
    LET database == TenantDatabase(call.header)
        current  == requireAuthenticatedUser(call)
        payload  == call.body.payload
    IN
    CASE call.pc = "start" ->
           IF current.status # "ok"
           THEN AuthFails(call, current.status, current.message, allUsers)
           ELSE AuthAwait(call, "userRepository.findById", allUsers)
      [] call.pc = "userRepository.findById" ->
           loadOwnedUser(call, current, "userRepository.updateById", allUsers)
      [] call.pc = "userRepository.updateById" ->
           IF FindUserById(allUsers[database], current.userId) = <<>>
           THEN AuthFails(call, "NotFound", "Entity not found", allUsers)
           ELSE AuthAwait(call, "userRepository.findById (updated)",
                  [allUsers EXCEPT ![database] =
                     [i \in DOMAIN @ |->
                        IF @[i].id = current.userId
                        THEN StoreProfile(@[i], payload)
                        ELSE @[i]]])
      [] call.pc = "userRepository.findById (updated)" ->
           LET updated == FindUserById(allUsers[database], current.userId) IN
           IF updated = <<>>
           THEN AuthFails(call, "NotFound", "Entity not found", allUsers)
           ELSE AuthDone([call EXCEPT !.user = updated],
                         <<[view |-> toView(updated[1])]>>, allUsers)

\* UserSettingsController.updatePassword, which calls
\* UserSettingsService.updatePassword(userId, tenantId, payload)
updatePassword(call, allUsers) ==
    LET database == TenantDatabase(call.header)
        current  == requireAuthenticatedUser(call)
    IN
    CASE call.pc = "start" ->
           IF current.status # "ok"
           THEN AuthFails(call, current.status, current.message, allUsers)
           ELSE IF Len(call.body.newPassword) < MinPasswordLength
           THEN AuthFails(call, "BadRequest",
                          "New password must be at least 8 characters long",
                          allUsers)
           ELSE AuthAwait(call, "userRepository.findById", allUsers)
      [] call.pc = "userRepository.findById" ->
           loadOwnedUser(call, current, "passwordHasher.comparePassword",
                         allUsers)
      [] call.pc = "passwordHasher.comparePassword" ->
           IF ~comparePassword(call.body.currentPassword,
                               call.user[1].password).value
           THEN AuthFails(call, "Unauthorized",
                          "Current password is incorrect", allUsers)
           ELSE AwaitHashPassword(call, call.body.newPassword, allUsers)
      [] call.pc = "passwordHasher.hashPassword" ->
           AuthFails(call, "InternalServerError", "Password cannot be empty",
                     allUsers)
      [] call.pc = "bcrypt.genSalt" ->
           AuthAwait(call, "bcrypt.hash", allUsers)
      [] call.pc = "bcrypt.hash" ->
           AuthAwait([call EXCEPT !.hashed =
                         hashPassword(call.body.newPassword).digest],
                     "userRepository.updateById", allUsers)
      [] call.pc = "userRepository.updateById" ->
           IF FindUserById(allUsers[database], current.userId) = <<>>
           THEN AuthFails(call, "NotFound", "Entity not found", allUsers)
           ELSE AuthDone(call, <<>>,
                  [allUsers EXCEPT ![database] =
                     [i \in DOMAIN @ |->
                        IF @[i].id = current.userId
                        THEN [@[i] EXCEPT !.password = call.hashed]
                        ELSE @[i]]])

\* The handler of a call, run for one step
AuthStep(call, allUsers) ==
    CASE call.op = "register" -> register(call, allUsers)
      [] call.op = "login" -> login(call, allUsers)
      [] call.op = "refresh" -> refresh(call, allUsers)
      [] call.op = "updatePassword" -> updatePassword(call, allUsers)
      [] call.op = "updateProfile" -> updateProfile(call, allUsers)

\* A handler run from its first line to its end with no other handler
\* running in between
RECURSIVE RunAuth(_, _)
RunAuth(call, allUsers) ==
    LET r == AuthStep(call, allUsers) IN
    IF r.call.pc = "done" THEN r ELSE RunAuth(r.call, r.users)

Password1 == <<"p","a","s","s","w","o","r","1">>

Password2 == <<"p","a","s","s","w","o","r","2">>

\* The x-tenant-id header values of the requests to POST /auth/register
RegisterTenantHeaders ==
    { <<>>,
      << <<"A","-","B">> >>,
      << <<"c">> >> }

\* Bodies of POST /auth/register: an address with an upper-case letter, and
\* roles absent, empty, repeated, privileged, unknown
RegisterBodies ==
    [ email    : { <<"U","@","x">> },
      password : { Password1 },
      roles    : { <<>>, << <<>> >>,
                   << <<"instructor", "instructor">> >>,
                   << <<"superAdmin">> >>,
                   << <<"student", "superAdmin">> >>,
                   << <<"guest">> >> } ]

\* Bodies of POST /auth/login
LoginBodies ==
    [ email    : { <<"U","@","x">>, <<"u","@","x">> },
      password : { Password1, Password2, <<>> } ]

\* Bodies of POST /tenant/me/password
PasswordBodies ==
    { [currentPassword |-> Password1, newPassword |-> Password2],
      [currentPassword |-> Password2, newPassword |-> Password2],
      [currentPassword |-> Password1, newPassword |-> <<"p","2">>] }

\* Bodies of PATCH /tenant/me/profile: both names; the last name only; a
\* role and a status; another tenant, another address and a password
ProfileBodies ==
    { [NoProfileChange EXCEPT !.firstName = << <<"B","o","b">> >>,
                              !.lastName = << <<"L","e","e">> >>],
      [NoProfileChange EXCEPT !.lastName = << <<"L","e","e">> >>],
      [NoProfileChange EXCEPT !.roles = << <<"superAdmin">> >>,
                              !.status = <<"suspended">>],
      [NoProfileChange EXCEPT !.tenantId = << <<"c">> >>,
                              !.email = << <<"v","@","x">> >>,
                              !.password = <<Password2>>] }

\* The requests made while the tokens of an account are followed: one
\* user registers under one tenant, and credentials and tokens are
\* presented under that tenant and under another
LifetimeHeader == << <<"a","_","b">> >>

LifetimeHeaders == {LifetimeHeader, << <<"c">> >>}

LifetimeRegisterBodies == {b \in RegisterBodies : b.roles = <<>>}

LifetimeLoginBodies ==
    {b \in LoginBodies : b.email = <<"u","@","x">> /\ b.password # <<>>}

\* The token pair of a response reaches the client, who keeps it for later
\* requests (keep) or drops it; at most MaxPairs pairs are followed
Issue(keep, profile, response) ==
    IF keep /\ Cardinality(issued) < MaxPairs
    THEN issued' = issued \cup {[profile |-> profile, response |-> response]}
    ELSE UNCHANGED issued

\* The status and the message of the response of a handler that has ended
AuthResponse(r) == [status |-> r.status, message |-> r.message]

\* A request arrives: its handler runs from its first line to its first
\* await.  db.started counts the handlers started.
AuthStart(op, header, body) ==
    LET r == AuthStep(AuthCall(db.started + 1, op, header, body), users) IN
    /\ IF r.call.pc = "done"
       THEN last' = AuthResponse(r) /\ UNCHANGED calls
       ELSE calls' = Append(calls, r.call) /\ UNCHANGED last
    /\ db' = [db EXCEPT !.started = @ + 1]
    /\ UNCHANGED <<regVars, authVars, authz, users, cms, pipe, probe>>

\* A request to POST /auth/register; at most MaxUsers users are registered
Register(header, body) ==
    /\ CountUsers(users)
         + Cardinality({i \in DOMAIN calls : calls[i].op = "register"})
           < MaxUsers
    /\ AuthStart("register", header, body)

\* A request to POST /auth/login
Login(header, body) == AuthStart("login", header, body)

\* A request to POST /auth/refresh
Refresh(header, refreshToken) ==
    AuthStart("refresh", header, [refreshToken |-> refreshToken])

\* A request to POST /tenant/me/password of the user the strategy has
\* authenticated
UpdatePassword(header, profile, payload) ==
    AuthStart("updatePassword", header,
              [profile |-> profile,
               currentPassword |-> payload.currentPassword,
               newPassword |-> payload.newPassword])

\* A request to PATCH /tenant/me/profile of the user the strategy has
\* authenticated
UpdateProfile(header, profile, payload) ==
    AuthStart("updateProfile", header,
              [profile |-> profile, payload |-> payload])

\* The call a suspended handler awaits is answered: it takes effect and the
\* handler runs to its next await, or to its end.  The client keeps the
\* token pair of the response (keep) or drops it.
AuthResume(i, keep) ==
    LET r == AuthStep(calls[i], users) IN
    /\ users' = r.users
    /\ IF r.call.pc = "done"
       THEN calls' = WithoutCall(i) /\ last' = AuthResponse(r)
       ELSE calls' = [calls EXCEPT ![i] = r.call] /\ UNCHANGED last
    /\ IF r.response # <<>> /\ r.call.op \in {"register", "login", "refresh"}
       THEN Issue(keep, userToProfile(r.call.user[1]), r.response[1].tokens)
       ELSE UNCHANGED issued
    /\ UNCHANGED <<env, now, lastCall>>
    /\ UNCHANGED <<regVars, authz, db, cms, pipe, probe>>

----------------------------------------------------------------------------
(* Controllers of the course tree: courses, modules, chapters, sessions,   *)
(* reminders, attendance, attachments.  A handler is followed await by     *)
(* await: one step is the awaited call taking effect and the handler's own *)
(* code up to its next await, so the handlers of overlapping requests      *)
(* interleave where the code returns to the event loop.                    *)

\* The ids the repositories of a database give to the records created, in
\* order: generated ids, no two databases giving the same one
FreshIds == <<"n1", "n2", "n3", "n4">>

FreshIdsOfC == <<"p1", "p2", "p3", "p4">>

\* The order in which find and findOne return the records of a collection:
\* the order of creation
IdOrder == <<"a1", "n1", "n2", "n3", "n4", "p1", "p2", "p3", "p4">>

NewCourse(id, tenantId) ==
    [id |-> id, tenantId |-> tenantId, attachments |-> 0, rev |-> 0]

NewModule(id, courseId) ==
    [id |-> id, courseId |-> courseId, attachments |-> 0, rev |-> 0]

NewChapter(id, moduleId) ==
    [id |-> id, moduleId |-> moduleId, attachments |-> 0, rev |-> 0]

NewSession(id, courseId, userId, moduleId, reminderEnabled) ==
    [ id |-> id, courseId |-> courseId, userId |-> userId,
      moduleId |-> moduleId, reminderEnabled |-> reminderEnabled,
      reminderStatus |-> <<>>, attendeeCount |-> 0, absenceCount |-> 0,
      rev |-> 0 ]

NewReminder(id, sessionId) ==
    [id |-> id, sessionId |-> sessionId, status |-> "pending", rev |-> 0]

NewAttendance(id, sessionId, userId, status) ==
    [ id |-> id, sessionId |-> sessionId, userId |-> userId,
      status |-> status, rev |-> 0 ]

\* A tenant record: its id, its slug, the status of its dropboxConfig
\* ("none" when it has no dropboxConfig) and the appKey, appSecret and
\* refreshToken of the dropboxConfig ("" when it has none), its domain
\* (empty when it has none) and its hostnames
NewTenant(id, slug, dropbox) ==
    [ id |-> id, slug |-> slug, dropbox |-> dropbox,
      appKey |-> IF dropbox = "none" THEN "" ELSE "key",
      appSecret |-> IF dropbox = "none" THEN "" ELSE "secret",
      refreshToken |-> IF dropbox = "none" THEN "" ELSE "refresh",
      domain |-> <<>>, hostnames |-> <<>>, rev |-> 0 ]

\* The database of tenant a_b, whose clients send the id of the tenant
\* record as x-tenant-id.  Its courses c1 and c2 were created by
\* CoursesController.createCourse, which stamps the sanitized header tenant;
\* a module under each, a chapter under m1, a session under each course, a
\* reminder and an attendance record under s1 were created by the
\* controllers of the tree.  Its users were registered under the tenant:
\* uA, an instructor, and uC, whose tenantId PATCH /tenant/me/profile has
\* since rewritten to c (updateProfile stores the tenantId of its payload).
\* No handler creates a tenant record: the one of the tenant is
\* provisioned with Dropbox connected and without a domain or hostnames.
StoreAB ==
    [ courses    |-> [c \in {"c1", "c2"} |-> NewCourse(c, <<"a","_","b">>)],
      modules    |-> [m \in {"m1", "m2"} |->
                         NewModule(m, IF m = "m1" THEN "c1" ELSE "c2")],
      chapters   |-> [h \in {"h1"} |-> NewChapter(h, "m1")],
      sessions   |-> [x \in {"s1", "s2"} |->
                         [ NewSession(x, IF x = "s1" THEN "c1" ELSE "c2",
                                      "uA", <<>>, x = "s1")
                             EXCEPT !.attendeeCount =
                                       IF x = "s1" THEN 1 ELSE 0,
                                    !.reminderStatus =
                                       IF x = "s1" THEN <<"pending">>
                                       ELSE <<>> ] ],
      reminders  |-> [r \in {"r1"} |-> NewReminder(r, "s1")],
      attendance |-> [a \in {"a1"} |->
                         NewAttendance(a, "s1", "uA", "present")],
      users      |-> [u \in {"uA", "uC"} |->
                         IF u = "uA"
                         THEN [tenantId |-> <<"a","_","b">>,
                               roles |-> <<"instructor">>]
                         ELSE [tenantId |-> <<"c">>,
                               roles |-> <<"instructor">>]],
      tenants    |-> << NewTenant(<<"a","_","b">>, <<"a","-","b">>,
                                  "connected") >>,
      fresh      |-> FreshIds,
      created    |-> 0 ]

\* The database of tenant c, whose clients send the slug of the tenant
\* record as x-tenant-id: a course created by createCourse under the
\* header c, a module under it, and the tenant record, of generated id t2,
\* provisioned with Dropbox connected
StoreC ==
    [ courses    |-> [c \in {"c3"} |-> NewCourse(c, <<"c">>)],
      modules    |-> [m \in {"m3"} |-> NewModule(m, "c3")],
      chapters   |-> <<>>,
      sessions   |-> <<>>,
      reminders  |-> <<>>,
      attendance |-> <<>>,
      users      |-> <<>>,
      tenants    |-> << NewTenant(<<"t","2">>, <<"c">>, "connected") >>,
      fresh      |-> FreshIdsOfC,
      created    |-> 0 ]

\* A database no record was written to
EmptyStore ==
    [ courses |-> <<>>, modules |-> <<>>, chapters |-> <<>>,
      sessions |-> <<>>, reminders |-> <<>>, attendance |-> <<>>,
      users |-> <<>>, tenants |-> <<>>, fresh |-> <<>>, created |-> 0 ]

\* The databases, one for each tenant (datasources.mongoTenant binds the
\* repositories of a request to the database named after its sanitized
\* header tenant), and the number of handlers started so far
StoreInit ==
    /\ db = [tenant |->
               [d \in DatabaseNames |->
                  IF d = buildTenantDatabaseName(<<"a","_","b">>)
                  THEN StoreAB ELSE StoreC],
             started |-> 0]
    /\ last = [status |-> "none", message |-> ""]

Pass == [status |-> "ok", message |-> ""]

Throw(status, message) == [status |-> status, message |-> message]

\* repository.findById, updateById or deleteById of an id that is not
\* stored (EntityNotFoundError)
NotFound == Throw("NotFound", "Entity not found")

\* What a handler holds across its awaits: the records it has read.  course,
\* module, chapter, session, reminder and attendance are read by the
\* controller and by the reminder and attendance services; tenant, target
\* (the record whose attachments are rewritten), via and owner (the module
\* and the course above it) by DropboxAttachmentService
NoLocals ==
    [ course |-> <<>>, module |-> <<>>, chapter |-> <<>>, session |-> <<>>,
      reminder |-> <<>>, attendance |-> <<>>, tenant |-> <<>>,
      target |-> <<>>, via |-> <<>>, owner |-> <<>>,
      attendees |-> <<>>, absentees |-> <<>>, tries |-> 1 ]

\* The handler of a request, about to run
Invocation(ticket, request) ==
    [ticket |-> ticket, request |-> request, pc |-> "start",
     mem |-> NoLocals]

\* What a step of a handler leaves: the handler suspended at its next
\* await, returned, or ended by an error, and the store
Await(call, pc, store) ==
    [call |-> [call EXCEPT !.pc = pc], status |-> "", message |-> "",
     db |-> store]

Returns(call, store) ==
    [call |-> [call EXCEPT !.pc = "done"], status |-> "ok", message |-> "",
     db |-> store]

Throws(call, error, store) ==
    [call |-> [call EXCEPT !.pc = "done"], status |-> error.status,
     message |-> error.message, db |-> store]

Then(call, next, store) ==
    IF next = "return" THEN Returns(call, store) ELSE Await(call, next, store)

\* sanitizeTenantId(extractTenantId(this.request)), first line of a handler
RequestTenant(request) ==
    LET ex == extractTenantId(request.tenant) IN
    IF ex.status # "ok" THEN [status |-> ex.status, tenantId |-> <<>>]
    ELSE [status |-> "ok", tenantId |-> sanitizeTenantId(ex.tenantId)]

\* A handler from its first line to its first await
Enter(call, store, next) ==
    IF RequestTenant(call.request).status # "ok"
    THEN Throws(call, Throw(RequestTenant(call.request).status,
                            "x-tenant-id"), store)
    ELSE Then(call, next, store)

FreshId(store) == store.fresh[store.created + 1]

\* repository.updateById(id, data), then repository.findById(id), at the
\* end of an update handler
UpdateAndReload(call, store, coll, id) ==
    IF id \notin DOMAIN store[coll] THEN Throws(call, NotFound, store)
    ELSE IF call.pc = "repository.updateById"
    THEN Await(call, "repository.findById (updated)",
               [store EXCEPT ![coll][id].rev = @ + 1])
    ELSE Returns(call, store)

\* repository.deleteById(id), at the end of a delete handler
DeleteById(call, store, coll, id) ==
    IF id \notin DOMAIN store[coll] THEN Throws(call, NotFound, store)
    ELSE Returns(call, [store EXCEPT ![coll] = MapDelete(@, id)])

\* courseRepository.findById(courseId) followed by the check every
\* controller makes on the course (ensureCourseAccess and the tails of
\* ensureModuleAccess / ensureSessionAccess); `message` is the controller's
\* Forbidden message
CourseAccess(courseId, tenantId, message, store) ==
    IF courseId \notin DOMAIN store.courses THEN NotFound
    ELSE IF store.courses[courseId].tenantId = <<>>
    THEN Throw("BadRequest", "Course record is missing tenant context")
    ELSE IF sanitizeTenantId(store.courses[courseId].tenantId) # tenantId
    THEN Throw("Forbidden", message)
    ELSE Pass

\* The step in which courseRepository.findById(courseId) answers a handler:
\* the handler holds the course, checks it and goes on to `next`
EnsureCourse(call, store, courseId, message, next) ==
    LET g == CourseAccess(courseId, RequestTenant(call.request).tenantId,
                          message, store)
        read == IF courseId \in DOMAIN store.courses
                THEN [call EXCEPT !.mem.course = <<store.courses[courseId]>>]
                ELSE call
    IN IF g.status # "ok" THEN Throws(read, g, store)
       ELSE Then(read, next, store)

(* CoursesController *)

\* CoursesController.ensureInstructorEligibility(user, tenantId), after
\* userRepository.findById
Courses_ensureInstructorEligibility(userId, tenantId, store) ==
    IF userId \notin DOMAIN store.users THEN NotFound
    ELSE IF store.users[userId].tenantId = <<>>
              \/ sanitizeTenantId(store.users[userId].tenantId) # tenantId
    THEN Throw("Forbidden", "Instructor does not belong to this tenant")
    ELSE IF \A i \in DOMAIN store.users[userId].roles :
               store.users[userId].roles[i] \notin {"instructor", "tenantAdmin"}
    THEN Throw("Forbidden",
               "Instructor must have instructor or tenant admin role")
    ELSE Pass

\* The step in which userRepository.findById answers createCourse or
\* updateCourse
CourseInstructor(call, store, next) ==
    LET u == Courses_ensureInstructorEligibility(
                 call.request.body.userId,
                 RequestTenant(call.request).tenantId, store)
    IN IF u.status # "ok" THEN Throws(call, u, store)
       ELSE Then(call, next, store)

\* createCourse, with valid dates and an optional instructorId (body.userId)
createCourse(call, store) ==
    CASE call.pc = "start" ->
           Enter(call, store,
                 IF call.request.body.userId # ""
                 THEN "userRepository.findById" ELSE "repository.create")
      [] call.pc = "userRepository.findById" ->
           CourseInstructor(call, store, "repository.create")
      [] call.pc = "repository.create" ->
           Returns(call,
             [store EXCEPT
                !.courses = MapSet(@, FreshId(store),
                              NewCourse(FreshId(store),
                                  RequestTenant(call.request).tenantId)),
                !.created = @ + 1])

listCourses(call, store) ==
    CASE call.pc = "start" -> Enter(call, store, "repository.find")
      [] call.pc = "repository.find" -> Returns(call, store)

getCourse(call, store) ==
    CASE call.pc = "start" -> Enter(call, store, "courseRepository.findById")
      [] call.pc = "courseRepository.findById" ->
           EnsureCourse(call, store, call.request.parent,
                        "Course does not belong to this tenant", "return")

\* updateCourse, with valid dates, a title when body.change, and an
\* optional instructorId (body.userId)
updateCourse(call, store) ==
    LET body == call.request.body
        afterUser == IF body.change \/ body.userId # ""
                     THEN "repository.updateById" ELSE "return"
    IN
    CASE call.pc = "start" -> Enter(call, store, "courseRepository.findById")
      [] call.pc = "courseRepository.findById" ->
           EnsureCourse(call, store, call.request.parent,
                        "Course does not belong to this tenant",
                        IF body.userId # "" THEN "userRepository.findById"
                        ELSE afterUser)
      [] call.pc = "userRepository.findById" ->
           CourseInstructor(call, store, afterUser)
      [] OTHER -> UpdateAndReload(call, store, "courses", call.request.parent)

(* ModulesController *)

\* ModulesController.ensureModuleAccess without the comparison of course ids
Modules_ensureModuleAccessAnyCourse(call, store, next) ==
    IF call.pc # "courseRepository.findById"
    THEN Await(call, "courseRepository.findById", store)
    ELSE EnsureCourse(call, store, call.mem.module[1].courseId,
                      "Course does not belong to this tenant", next)

\* ModulesController.ensureModuleAccess(module, courseId, tenantId): the
\* comparison of the course ids, then the await of
\* courseRepository.findById and the check of the course
Modules_ensureModuleAccess(call, store, next) ==
    IF call.pc # "courseRepository.findById"
    THEN IF call.mem.module[1].courseId # call.request.parent
         THEN Throws(call,
                     Throw("Forbidden",
                           "Module does not belong to the specified course"),
                     store)
         ELSE Await(call, "courseRepository.findById", store)
    ELSE EnsureCourse(call, store, call.mem.module[1].courseId,
                      "Course does not belong to this tenant", next)

\* The handlers of ModulesController that start from the course in the path
\* (createModule, listModules)
ModuleUnderCourse(call, store, next) ==
    CASE call.pc = "start" -> Enter(call, store, "courseRepository.findById")
      [] call.pc = "courseRepository.findById" ->
           EnsureCourse(call, store, call.request.parent,
                        "Course does not belong to this tenant", next)

\* The handlers of ModulesController that start from the module in the path
\* (getModule, updateModule, uploadModuleAttachment, deleteModule)
ModuleInCourse(call, store, next) ==
    CASE call.pc = "start" -> Enter(call, store, "moduleRepository.findById")
      [] call.pc = "moduleRepository.findById" ->
           IF call.request.child \notin DOMAIN store.modules
           THEN Throws(call, NotFound, store)
           ELSE Modules_ensureModuleAccess(
                    [call EXCEPT !.mem.module =
                                    <<store.modules[call.request.child]>>],
                    store, next)
      [] call.pc = "courseRepository.findById" ->
           Modules_ensureModuleAccess(call, store, next)

GuardSteps == {"start", "moduleRepository.findById",
               "chapterRepository.findById", "sessionRepository.findById",
               "courseRepository.findById"}

createModule(call, store) ==
    IF call.pc = "repository.create"
    THEN Returns(call,
           [store EXCEPT
              !.modules = MapSet(@, FreshId(store),
                                 NewModule(FreshId(store),
                                           call.request.parent)),
              !.created = @ + 1])
    ELSE ModuleUnderCourse(call, store, "repository.create")

listModules(call, store) ==
    IF call.pc = "repository.find" THEN Returns(call, store)
    ELSE ModuleUnderCourse(call, store, "repository.find")

getModule(call, store) == ModuleInCourse(call, store, "return")

\* updateModule, with a body that sets the title when body.change
updateModule(call, store) ==
    IF call.pc \in GuardSteps
    THEN ModuleInCourse(call, store,
                        IF call.request.body.change
                        THEN "repository.updateById" ELSE "return")
    ELSE UpdateAndReload(call, store, "modules", call.request.child)

deleteModule(call, store) ==
    IF call.pc \in GuardSteps
    THEN ModuleInCourse(call, store, "repository.deleteById")
    ELSE DeleteById(call, store, "modules", call.request.child)

(* ChaptersController *)

\* ChaptersController.ensureModuleAccess(module, tenantId), at the answer
\* of its courseRepository.findById
Chapters_ensureModuleAccess(call, store, next) ==
    EnsureCourse(call, store, call.mem.module[1].courseId,
                 "Target module does not belong to this tenant", next)

\* createChapter, listChapters
ChapterUnderModule(call, store, next) ==
    CASE call.pc = "start" -> Enter(call, store, "moduleRepository.findById")
      [] call.pc = "moduleRepository.findById" ->
           IF call.request.parent \notin DOMAIN store.modules
           THEN Throws(call, NotFound, store)
           ELSE Await([call EXCEPT !.mem.module =
                                      <<store.modules[call.request.parent]>>],
                      "courseRepository.findById", store)
      [] call.pc = "courseRepository.findById" ->
           Chapters_ensureModuleAccess(call, store, next)

\* ChaptersController.ensureChapterAccess(chapter, moduleId, tenantId),
\* from the answer of chapterRepository.findById on: getChapter,
\* updateChapter, uploadChapterAttachment, deleteChapter
Chapters_ensureChapterAccess(call, store, next) ==
    CASE call.pc = "chapterRepository.findById" ->
           IF call.request.child \notin DOMAIN store.chapters
           THEN Throws(call, NotFound, store)
           ELSE LET read == [call EXCEPT !.mem.chapter =
                                <<store.chapters[call.request.child]>>] IN
                IF read.mem.chapter[1].moduleId # call.request.parent
                THEN Throws(read,
                       Throw("Forbidden",
                             "Chapter does not belong to the specified module"),
                       store)
                ELSE Await(read, "moduleRepository.findById", store)
      [] call.pc = "moduleRepository.findById" ->
           IF call.mem.chapter[1].moduleId \notin DOMAIN store.modules
           THEN Throws(call, NotFound, store)
           ELSE Await([call EXCEPT !.mem.module =
                         <<store.modules[call.mem.chapter[1].moduleId]>>],
                      "courseRepository.findById", store)
      [] call.pc = "courseRepository.findById" ->
           Chapters_ensureModuleAccess(call, store, next)

ChapterInModule(call, store, next) ==
    IF call.pc = "start"
    THEN Enter(call, store, "chapterRepository.findById")
    ELSE Chapters_ensureChapterAccess(call, store, next)

createChapter(call, store) ==
    IF call.pc = "repository.create"
    THEN Returns(call,
           [store EXCEPT
              !.chapters = MapSet(@, FreshId(store),
                                  NewChapter(FreshId(store),
                                             call.request.parent)),
              !.created = @ + 1])
    ELSE ChapterUnderModule(call, store, "repository.create")

listChapters(call, store) ==
    IF call.pc = "repository.find" THEN Returns(call, store)
    ELSE ChapterUnderModule(call, store, "repository.find")

getChapter(call, store) == ChapterInModule(call, store, "return")

\* updateChapter, with a body that sets the title when body.change
updateChapter(call, store) ==
    IF call.pc \in GuardSteps
    THEN ChapterInModule(call, store,
                         IF call.request.body.change
                         THEN "repository.updateById" ELSE "return")
    ELSE UpdateAndReload(call, store, "chapters", call.request.child)

deleteChapter(call, store) ==
    IF call.pc \in GuardSteps
    THEN ChapterInModule(call, store, "repository.deleteById")
    ELSE DeleteById(call, store, "chapters", call.request.child)

(* SessionsController *)

\* SessionsController.ensureSessionAccess(session, courseId, tenantId)
Sessions_ensureSessionAccess(call, store, next) ==
    IF call.pc # "courseRepository.findById"
    THEN IF call.mem.session[1].courseId # call.request.parent
         THEN Throws(call,
                     Throw("Forbidden",
                           "Session does not belong to the specified course"),
                     store)
         ELSE Await(call, "courseRepository.findById", store)
    ELSE EnsureCourse(call, store, call.mem.session[1].courseId,
                      "Course does not belong to this tenant", next)

\* getSession, updateSession, deleteSession up to the end of the guard
SessionInCourse(call, store, next) ==
    CASE call.pc = "start" -> Enter(call, store, "sessionRepository.findById")
      [] call.pc = "sessionRepository.findById" ->
           IF call.request.child \notin DOMAIN store.sessions
           THEN Throws(call, NotFound, store)
           ELSE Sessions_ensureSessionAccess(
                    [call EXCEPT !.mem.session =
                                    <<store.sessions[call.request.child]>>],
                    store, next)
      [] call.pc = "courseRepository.findById" ->
           Sessions_ensureSessionAccess(call, store, next)

\* SessionsController.ensureInstructorEligibility(userId, tenantId), at the
\* answer of its userRepository.findById
Sessions_ensureInstructorEligibility(userId, tenantId, store) ==
    IF userId \notin DOMAIN store.users THEN NotFound
    ELSE IF sanitizeTenantId(store.users[userId].tenantId) # tenantId
    THEN Throw("Forbidden", "Instructor does not belong to this tenant")
    ELSE IF \A i \in DOMAIN store.users[userId].roles :
               store.users[userId].roles[i] \notin {"instructor", "tenantAdmin"}
    THEN Throw("Forbidden", "User must have instructor or tenant admin role")
    ELSE Pass

\* SessionsController.ensureModuleAlignment(moduleId, courseId, tenantId),
\* from the answer of moduleRepository.findById on
Sessions_ensureModuleAlignment(call, store, next) ==
    LET moduleId == call.request.body.moduleId[1] IN
    IF call.pc = "moduleRepository.findById (body)"
    THEN IF moduleId \notin DOMAIN store.modules
         THEN Throws(call, NotFound, store)
         ELSE LET read == [call EXCEPT !.mem.module =
                              <<store.modules[moduleId]>>] IN
              IF read.mem.module[1].courseId # call.request.parent
              THEN Throws(read,
                     Throw("Forbidden",
                           "Module does not belong to the specified course"),
                     store)
              ELSE Await(read, "courseRepository.findById (body)", store)
    ELSE EnsureCourse(call, store, call.mem.module[1].courseId,
                      "Course does not belong to this tenant", next)

\* The checks of createSession and updateSession on body.userId and
\* body.moduleId, in the order the handlers make them
SessionBodyChecks(call, store, next) ==
    LET body == call.request.body IN
    IF call.pc = "userRepository.findById"
    THEN LET u == Sessions_ensureInstructorEligibility(
                      body.userId, RequestTenant(call.request).tenantId,
                      store) IN
         IF u.status # "ok" THEN Throws(call, u, store)
         ELSE Then(call,
                   IF body.moduleId # <<>>
                   THEN "moduleRepository.findById (body)" ELSE next,
                   store)
    ELSE Sessions_ensureModuleAlignment(call, store, next)

BodySteps == {"userRepository.findById", "moduleRepository.findById (body)",
              "courseRepository.findById (body)"}

\* createSession, with a body whose other fields are valid
createSession(call, store) ==
    LET body == call.request.body IN
    CASE call.pc = "start" -> Enter(call, store, "courseRepository.findById")
      [] call.pc = "courseRepository.findById" ->
           EnsureCourse(call, store, call.request.parent,
                        "Course does not belong to this tenant",
                        "userRepository.findById")
      [] call.pc \in BodySteps ->
           SessionBodyChecks(call, store, "repository.create")
      [] call.pc = "repository.create" ->
           Returns(call,
             [store EXCEPT
                !.sessions =
                    MapSet(@, FreshId(store),
                           NewSession(FreshId(store), call.request.parent,
                                      body.userId, body.moduleId,
                                      body.reminderEnabled = <<TRUE>>)),
                !.created = @ + 1])

listSessions(call, store) ==
    CASE call.pc = "start" -> Enter(call, store, "courseRepository.findById")
      [] call.pc = "courseRepository.findById" ->
           EnsureCourse(call, store, call.request.parent,
                        "Course does not belong to this tenant",
                        "repository.find")
      [] call.pc = "repository.find" -> Returns(call, store)

getSession(call, store) == SessionInCourse(call, store, "return")

\* updateSession, with a body that sets the notes when body.change and may
\* set userId, moduleId and reminderEnabled
updateSession(call, store) ==
    LET body == call.request.body
        id   == call.request.child
        afterBody ==
            IF body.change \/ body.userId # "" \/ body.moduleId # <<>>
                 \/ body.reminderEnabled # <<>>
            THEN "repository.updateById" ELSE "return"
        afterUser == IF body.moduleId # <<>>
                     THEN "moduleRepository.findById (body)" ELSE afterBody
    IN
    CASE call.pc \in GuardSteps ->
           SessionInCourse(call, store,
                           IF body.userId # "" THEN "userRepository.findById"
                           ELSE afterUser)
      [] call.pc \in BodySteps -> SessionBodyChecks(call, store, afterBody)
      [] call.pc = "repository.updateById" ->
           IF id \notin DOMAIN store.sessions
           THEN Throws(call, NotFound, store)
           ELSE Await(call, "repository.findById (updated)",
                  [store EXCEPT !.sessions[id] =
                     [@ EXCEPT
                        !.userId = IF body.userId # ""
                                   THEN body.userId ELSE @,
                        !.moduleId = IF body.moduleId # <<>>
                                     THEN body.moduleId ELSE @,
                        !.reminderEnabled =
                            IF body.reminderEnabled # <<>>
                            THEN body.reminderEnabled[1] ELSE @,
                        !.rev = @ + 1]])
      [] call.pc = "repository.findById (updated)" ->
           IF id \notin DOMAIN store.sessions
           THEN Throws(call, NotFound, store)
           ELSE Returns(call, store)

deleteSession(call, store) ==
    IF call.pc \in GuardSteps
    THEN SessionInCourse(call, store, "repository.deleteById")
    ELSE DeleteById(call, store, "sessions", call.request.child)

(* SessionRemindersController and SessionReminderService *)

\* SessionRemindersController.ensureSessionAccess(sessionId, tenantId),
\* first call of every handler of the controller
Reminders_ensureSessionAccess(call, store, next) ==
    CASE call.pc = "start" -> Enter(call, store, "sessionRepository.findById")
      [] call.pc = "sessionRepository.findById" ->
           IF call.request.parent \notin DOMAIN store.sessions
           THEN Throws(call, NotFound, store)
           ELSE Await([call EXCEPT !.mem.session =
                         <<store.sessions[call.request.parent]>>],
                      "courseRepository.findById", store)
      [] call.pc = "courseRepository.findById" ->
           EnsureCourse(call, store, call.mem.session[1].courseId,
                        "Session does not belong to this tenant", next)

\* The comparison of SessionReminderService and SessionAttendanceService
\* between the sessionId of the record and the session of the path
ChildOfSession(call, record, message, next, store) ==
    IF record.sessionId # call.request.parent
    THEN Throws(call, Throw("Forbidden", message), store)
    ELSE Await(call, next, store)

\* SessionReminderService.scheduleReminder, with a sendAt before the session
scheduleReminder(call, store) ==
    LET sessionId == call.request.parent IN
    CASE call.pc \in GuardSteps ->
           Reminders_ensureSessionAccess(call, store,
                                         "service sessionRepository.findById")
      [] call.pc = "service sessionRepository.findById" ->
           IF sessionId \notin DOMAIN store.sessions
           THEN Throws(call, NotFound, store)
           ELSE Await(call, "reminderRepository.create", store)
      [] call.pc = "reminderRepository.create" ->
           Await(call, "sessionRepository.updateById",
             [store EXCEPT
                !.reminders = MapSet(@, FreshId(store),
                                     NewReminder(FreshId(store), sessionId)),
                !.created = @ + 1])
      [] call.pc = "sessionRepository.updateById" ->
           IF sessionId \notin DOMAIN store.sessions
           THEN Throws(call, NotFound, store)
           ELSE Returns(call,
                  [store EXCEPT !.sessions[sessionId] =
                     [@ EXCEPT !.reminderEnabled = TRUE,
                               !.reminderStatus = <<"pending">>,
                               !.rev = @ + 1]])

listReminders(call, store) ==
    IF call.pc = "repository.find" THEN Returns(call, store)
    ELSE Reminders_ensureSessionAccess(call, store, "repository.find")

\* SessionReminderService.updateReminder, with a body that sets status `sent`
updateReminder(call, store) ==
    LET sessionId  == call.request.parent
        reminderId == call.request.child
    IN
    CASE call.pc \in GuardSteps ->
           Reminders_ensureSessionAccess(call, store,
                                         "reminderRepository.findById")
      [] call.pc = "reminderRepository.findById" ->
           IF reminderId \notin DOMAIN store.reminders
           THEN Throws(call, NotFound, store)
           ELSE ChildOfSession(
                    call, store.reminders[reminderId],
                    "Reminder does not belong to the specified session",
                    "reminderRepository.updateById", store)
      [] call.pc = "reminderRepository.updateById" ->
           IF reminderId \notin DOMAIN store.reminders
           THEN Throws(call, NotFound, store)
           ELSE Await(call, "reminderRepository.findById (updated)",
                  [store EXCEPT !.reminders[reminderId] =
                     [@ EXCEPT !.status = "sent", !.rev = @ + 1]])
      [] call.pc = "reminderRepository.findById (updated)" ->
           IF reminderId \notin DOMAIN store.reminders
           THEN Throws(call, NotFound, store)
           ELSE Await([call EXCEPT !.mem.reminder =
                         <<store.reminders[reminderId]>>],
                      "sessionRepository.updateById", store)
      [] call.pc = "sessionRepository.updateById" ->
           IF sessionId \notin DOMAIN store.sessions
           THEN Throws(call, NotFound, store)
           ELSE Returns(call,
                  [store EXCEPT !.sessions[sessionId] =
                     [@ EXCEPT !.reminderStatus =
                                  <<call.mem.reminder[1].status>>,
                               !.rev = @ + 1]])

\* SessionReminderService.cancelReminder.  When no reminder of the session
\* is left, updateById(sessionId, {reminderEnabled: false, reminderStatus:
\* undefined, ...}) writes reminderEnabled; the properties it gives as
\* undefined are left out of the update, so reminderStatus stays as stored.
cancelReminder(call, store) ==
    LET sessionId  == call.request.parent
        reminderId == call.request.child
    IN
    CASE call.pc \in GuardSteps ->
           Reminders_ensureSessionAccess(call, store,
                                         "reminderRepository.findById")
      [] call.pc = "reminderRepository.findById" ->
           IF reminderId \notin DOMAIN store.reminders
           THEN Throws(call, NotFound, store)
           ELSE ChildOfSession(
                    call, store.reminders[reminderId],
                    "Reminder does not belong to the specified session",
                    "reminderRepository.deleteById", store)
      [] call.pc = "reminderRepository.deleteById" ->
           IF reminderId \notin DOMAIN store.reminders
           THEN Throws(call, NotFound, store)
           ELSE Await(call, "reminderRepository.count",
                  [store EXCEPT !.reminders = MapDelete(@, reminderId)])
      [] call.pc = "reminderRepository.count" ->
           IF \E r \in DOMAIN store.reminders :
                 store.reminders[r].sessionId = sessionId
           THEN Returns(call, store)
           ELSE Await(call, "sessionRepository.updateById", store)
      [] call.pc = "sessionRepository.updateById" ->
           IF sessionId \notin DOMAIN store.sessions
           THEN Throws(call, NotFound, store)
           ELSE Returns(call,
                  [store EXCEPT !.sessions[sessionId] =
                     [@ EXCEPT !.reminderEnabled = FALSE,
                               !.rev = @ + 1]])

(* SessionAttendanceController and SessionAttendanceService *)

\* SessionAttendanceController.ensureSessionAccess(sessionId, tenantId)
Attendance_ensureSessionAccess(call, store, next) ==
    CASE call.pc = "start" -> Enter(call, store, "sessionRepository.findById")
      [] call.pc = "sessionRepository.findById" ->
           IF call.request.parent \notin DOMAIN store.sessions
           THEN Throws(call, NotFound, store)
           ELSE Await([call EXCEPT !.mem.session =
                         <<store.sessions[call.request.parent]>>],
                      "courseRepository.findById", store)
      [] call.pc = "courseRepository.findById" ->
           EnsureCourse(call, store, call.mem.session[1].courseId,
                        "Session does not belong to this tenant", next)

\* attendanceRepository.count({sessionId, status})
CountAttendance(store, sessionId, status) ==
    Cardinality({a \in DOMAIN store.attendance :
                    /\ store.attendance[a].sessionId = sessionId
                    /\ store.attendance[a].status = status})

\* SessionAttendanceService.refreshAttendanceCounts(session): the two
\* counts, then the write of both to the session
refreshAttendanceCounts(call, store) ==
    LET sessionId == call.request.parent IN
    CASE call.pc = "attendanceRepository.count (present)" ->
           Await([call EXCEPT !.mem.attendees =
                     <<CountAttendance(store, sessionId, "present")>>],
                 "attendanceRepository.count (absent)", store)
      [] call.pc = "attendanceRepository.count (absent)" ->
           Await([call EXCEPT !.mem.absentees =
                     <<CountAttendance(store, sessionId, "absent")>>],
                 "sessionRepository.updateById", store)
      [] call.pc = "sessionRepository.updateById" ->
           IF sessionId \notin DOMAIN store.sessions
           THEN Throws(call, NotFound, store)
           ELSE Returns(call,
                  [store EXCEPT !.sessions[sessionId] =
                     [@ EXCEPT !.attendeeCount = call.mem.attendees[1],
                               !.absenceCount = call.mem.absentees[1],
                               !.rev = @ + 1]])

\* attendanceRepository.findOne({where: {sessionId, userId}}): the first
\* record in the order of creation
FindAttendance(store, sessionId, userId) ==
    LET found == {i \in DOMAIN IdOrder :
                     /\ IdOrder[i] \in DOMAIN store.attendance
                     /\ store.attendance[IdOrder[i]].sessionId = sessionId
                     /\ store.attendance[IdOrder[i]].userId = userId}
    IN IF found = {} THEN <<>>
       ELSE <<store.attendance[
                  IdOrder[CHOOSE i \in found : \A j \in found : i <= j]]>>

\* SessionAttendanceService.upsertAttendance, with a valid status
upsertAttendance(call, store) ==
    LET sessionId == call.request.parent
        body      == call.request.body
    IN
    CASE call.pc \in GuardSteps ->
           Attendance_ensureSessionAccess(call, store,
                                          "service sessionRepository.findById")
      [] call.pc = "service sessionRepository.findById" ->
           IF sessionId \notin DOMAIN store.sessions
           THEN Throws(call, NotFound, store)
           ELSE Await(call, "attendanceRepository.findOne", store)
      [] call.pc = "attendanceRepository.findOne" ->
           LET existing == FindAttendance(store, sessionId, body.userId) IN
           IF existing # <<>>
           THEN Await([call EXCEPT !.mem.attendance = existing],
                      "attendanceRepository.updateById", store)
           ELSE Await(call, "attendanceRepository.create", store)
      [] call.pc = "attendanceRepository.updateById" ->
           IF call.mem.attendance[1].id \notin DOMAIN store.attendance
           THEN Throws(call, NotFound, store)
           ELSE Await(call, "attendanceRepository.findById (updated)",
                  [store EXCEPT !.attendance[call.mem.attendance[1].id] =
                     [@ EXCEPT !.status = body.status, !.rev = @ + 1]])
      [] call.pc = "attendanceRepository.findById (updated)" ->
           IF call.mem.attendance[1].id \notin DOMAIN store.attendance
           THEN Throws(call, NotFound, store)
           ELSE Await(call, "attendanceRepository.count (present)", store)
      [] call.pc = "attendanceRepository.create" ->
           Await(call, "attendanceRepository.count (present)",
             [store EXCEPT
                !.attendance =
                    MapSet(@, FreshId(store),
                           NewAttendance(FreshId(store), sessionId,
                                         body.userId, body.status)),
                !.created = @ + 1])
      [] OTHER -> refreshAttendanceCounts(call, store)

listAttendance(call, store) ==
    IF call.pc = "repository.find" THEN Returns(call, store)
    ELSE Attendance_ensureSessionAccess(call, store, "repository.find")

\* SessionAttendanceService.deleteAttendance
deleteAttendance(call, store) ==
    LET sessionId    == call.request.parent
        attendanceId == call.request.child
    IN
    CASE call.pc \in GuardSteps ->
           Attendance_ensureSessionAccess(call, store,
                                          "attendanceRepository.findById")
      [] call.pc = "attendanceRepository.findById" ->
           IF attendanceId \notin DOMAIN store.attendance
           THEN Throws(call, NotFound, store)
           ELSE ChildOfSession(
                    call, store.attendance[attendanceId],
                    "Attendance does not belong to the specified session",
                    "attendanceRepository.deleteById", store)
      [] call.pc = "attendanceRepository.deleteById" ->
           IF attendanceId \notin DOMAIN store.attendance
           THEN Throws(call, NotFound, store)
           ELSE Await(call, "service sessionRepository.findById",
                  [store EXCEPT !.attendance = MapDelete(@, attendanceId)])
      [] call.pc = "service sessionRepository.findById" ->
           IF sessionId \notin DOMAIN store.sessions
           THEN Throws(call, NotFound, store)
           ELSE Await(call, "attendanceRepository.count (present)", store)
      [] OTHER -> refreshAttendanceCounts(call, store)

(* DropboxAttachmentService and the upload handlers *)

\* value.replace(/x/g, y) on one character
ReplaceChar(s, from, to) ==
    [i \in 1..Len(s) |-> IF s[i] = from THEN to ELSE s[i]]

\* value.replace(/[...]/g, '')
RemoveChars(s, chars) ==
    LET Kept(c) == c \notin chars IN SelectSeq(s, Kept)

\* loadTenantRecord: the candidates, in the order of insertion into the Set
TenantCandidates(tenantId) ==
    LET sanitized == sanitizeTenantId(tenantId)
        NonEmpty(v) == v # <<>>
    IN SelectSeq(
         Unique(<< tenantId, sanitized,
                   ReplaceChar(tenantId, "_", "-"),
                   ReplaceChar(tenantId, "-", "_"),
                   ReplaceChar(sanitized, "_", "-"),
                   ReplaceChar(sanitized, "-", "_"),
                   RemoveChars(tenantId, {"-", "_", "."}),
                   RemoveChars(sanitized, {"_", "."}) >>),
         NonEmpty)

\* value.split('.')[0]
FirstLabel(s) ==
    LET dots == {i \in DOMAIN s : s[i] = "."} IN
    IF dots = {} THEN s
    ELSE SubSeq(s, 1, (CHOOSE i \in dots : \A j \in dots : i <= j) - 1)

\* loadTenantRecord: the test of the fallback on a tenant, by its slug, its
\* domain and its hostnames
FallbackMatch(tenant, tenantId) ==
    LET normalizedCandidates ==
            {sanitizeTenantId(c) : c \in Range(TenantCandidates(tenantId))}
        collapsedCandidates ==
            {RemoveChars(c, {"-", "_", "."}) : c \in normalizedCandidates}
        Among(name) ==
            \/ sanitizeTenantId(name) \in normalizedCandidates
            \/ RemoveChars(sanitizeTenantId(name), {"-", "_", "."})
                  \in collapsedCandidates
        AmongByLabel(name) ==
            \/ Among(name)
            \/ FirstLabel(name) # <<>> /\ Among(FirstLabel(name))
    IN \/ tenant.slug # <<>> /\ Among(tenant.slug)
       \/ tenant.domain # <<>> /\ AmongByLabel(tenant.domain)
       \/ \E i \in DOMAIN tenant.hostnames :
             AmongByLabel(tenant.hostnames[i])

\* The first record of a sequence that passes a test, if any
FirstOf(records, Test(_)) ==
    LET found == {i \in DOMAIN records : Test(records[i])} IN
    IF found = {} THEN <<>>
    ELSE <<records[CHOOSE i \in found : \A j \in found : i <= j]>>

\* prepareDropboxContext once loadTenantRecord has returned the tenant: the
\* checks of the dropboxConfig, of its status and of its credentials, then
\* the call of exchangeToken
UseTenant(call, tenant, store) ==
    IF tenant.dropbox = "none"
    THEN Throws(call,
           Throw("BadRequest",
                 "Dropbox integration is not configured for this tenant"),
           store)
    ELSE IF tenant.dropbox # "connected"
    THEN Throws(call, Throw("BadRequest",
                            "Dropbox integration is not connected"), store)
    ELSE IF tenant.appKey = "" \/ tenant.appSecret = ""
              \/ tenant.refreshToken = ""
    THEN Throws(call, Throw("BadRequest",
                            "Dropbox credentials are incomplete"), store)
    ELSE Await([call EXCEPT !.mem.tenant = <<tenant>>],
               "fetch(DROPBOX_TOKEN_ENDPOINT)", store)

\* loadTenantRecord(tenantId): findById of each candidate, then findOne by
\* slug of each candidate, then the fallback over find({limit: 250})
loadTenantRecord(call, tenantId, store) ==
    LET candidates == TenantCandidates(tenantId)
        candidate  == candidates[call.mem.tries]
        ById(t)    == t.id = candidate
        BySlug(t)  == t.slug = candidate
        Fallback(t) == FallbackMatch(t, tenantId)
        Next(pc)   ==
            IF call.mem.tries < Len(candidates)
            THEN Await([call EXCEPT !.mem.tries = @ + 1], call.pc, store)
            ELSE Await([call EXCEPT !.mem.tries = 1], pc, store)
    IN
    CASE call.pc = "tenantRepository.findById" ->
           IF FirstOf(store.tenants, ById) # <<>>
           THEN UseTenant(call, FirstOf(store.tenants, ById)[1], store)
           ELSE Next("tenantRepository.findOne")
      [] call.pc = "tenantRepository.findOne" ->
           IF FirstOf(store.tenants, BySlug) # <<>>
           THEN UseTenant(call, FirstOf(store.tenants, BySlug)[1], store)
           ELSE Next("tenantRepository.find")
      [] call.pc = "tenantRepository.find" ->
           IF FirstOf(store.tenants, Fallback) # <<>>
           THEN UseTenant(call, FirstOf(store.tenants, Fallback)[1], store)
           ELSE Throws(call, Throw("NotFound", "Tenant not found"), store)

\* findCourseForTenant / findModuleForTenant: the check of the course
\* against the id of the tenant record
CourseForTenant(call, courseId, message, store) ==
    IF courseId \notin DOMAIN store.courses
    THEN Throws(call, NotFound, store)
    ELSE LET read == [call EXCEPT !.mem.owner = <<store.courses[courseId]>>]
         IN
         IF store.courses[courseId].tenantId = <<>>
         THEN Throws(read, Throw("BadRequest",
                                 "Course is missing tenant context"), store)
         ELSE IF sanitizeTenantId(store.courses[courseId].tenantId)
                   # sanitizeTenantId(call.mem.tenant[1].id)
         THEN Throws(read, Throw("Forbidden", message), store)
         ELSE Await(read, "fetch(DROPBOX_UPLOAD_ENDPOINT)", store)

\* The collection an upload of a kind rewrites, and the id of its record
AttachedTo(kind) ==
    CASE kind = "course" -> "courses"
      [] kind = "module" -> "modules"
      [] kind = "chapter" -> "chapters"

AttachedId(call, kind) ==
    IF kind = "course" THEN call.request.parent ELSE call.request.child

\* A handler's await of parseSingleFileUpload, then
\* DropboxAttachmentService.upload{Course,Module,Chapter}Attachment
\* (tenantId, ...).  body.file says whether the form has the file field,
\* body.dropbox how Dropbox answers the token exchange and the upload; the
\* request for a shared link is answered with ok.
uploadAttachment(call, kind, tenantId, store) ==
    LET body == call.request.body
        coll == AttachedTo(kind)
        id   == AttachedId(call, kind)
    IN
    CASE call.pc = "parseSingleFileUpload" ->
           IF ~body.file
           THEN Throws(call,
                  Throw("BadRequest",
                        "Expected file field \"file\" in multipart form data"),
                  store)
           ELSE Await(call, "tenantRepository.findById", store)
      [] call.pc \in {"tenantRepository.findById", "tenantRepository.findOne",
                      "tenantRepository.find"} ->
           loadTenantRecord(call, tenantId, store)
      [] call.pc = "fetch(DROPBOX_TOKEN_ENDPOINT)" ->
           Await(call, "response.json()", store)
      [] call.pc = "response.json()" ->
           IF body.dropbox = "token refused"
           THEN Throws(call,
                  Throw("BadRequest", "Unable to obtain Dropbox access token"),
                  store)
           ELSE Await(call,
                      CASE kind = "course" ->
                             "service courseRepository.findById"
                        [] kind = "module" ->
                             "service moduleRepository.findById"
                        [] kind = "chapter" ->
                             "service chapterRepository.findById",
                      store)
      [] call.pc = "service chapterRepository.findById" ->
           IF id \notin DOMAIN store.chapters
           THEN Throws(call, NotFound, store)
           ELSE LET read == [call EXCEPT !.mem.target =
                                <<store.chapters[id]>>] IN
                IF store.chapters[id].moduleId # call.request.parent
                THEN Throws(read,
                       Throw("Forbidden",
                             "Chapter does not belong to the specified module"),
                       store)
                ELSE Await(read, "service moduleRepository.findById", store)
      [] call.pc = "service moduleRepository.findById" ->
           LET moduleId == IF kind = "module" THEN id
                           ELSE call.request.parent IN
           IF moduleId \notin DOMAIN store.modules
           THEN Throws(call, NotFound, store)
           ELSE Await(IF kind = "module"
                      THEN [call EXCEPT
                              !.mem.target = <<store.modules[moduleId]>>,
                              !.mem.via = <<store.modules[moduleId]>>]
                      ELSE [call EXCEPT
                              !.mem.via = <<store.modules[moduleId]>>],
                      "service courseRepository.findById", store)
      [] call.pc = "service courseRepository.findById" ->
           IF kind = "course"
           THEN IF id \notin DOMAIN store.courses
                THEN Throws(call, NotFound, store)
                ELSE CourseForTenant(
                         [call EXCEPT !.mem.target = <<store.courses[id]>>],
                         id, "Course does not belong to this tenant", store)
           ELSE CourseForTenant(call, call.mem.via[1].courseId,
                                "Module does not belong to this tenant",
                                store)
      [] call.pc = "fetch(DROPBOX_UPLOAD_ENDPOINT)" ->
           Await(call, "uploadResponse.json()", store)
      [] call.pc = "uploadResponse.json()" ->
           IF body.dropbox = "upload refused"
           THEN Throws(call, Throw("BadRequest", "Dropbox upload failed"),
                       store)
           ELSE Await(call, "fetch(DROPBOX_SHARED_LINK_ENDPOINT)", store)
      [] call.pc = "fetch(DROPBOX_SHARED_LINK_ENDPOINT)" ->
           Await(call, "createResponse.json()", store)
      [] call.pc = "createResponse.json()" ->
           Await(call, "repository.updateById", store)
      [] call.pc = "repository.updateById" ->
           IF id \notin DOMAIN store[coll]
           THEN Throws(call, NotFound, store)
           ELSE Await(call, "tenantRepository.updateById",
                  [store EXCEPT ![coll][id] =
                     [@ EXCEPT
                        !.attachments = call.mem.target[1].attachments + 1,
                        !.rev = @ + 1]])
      [] call.pc = "tenantRepository.updateById" ->
           \* touchDropboxSync: the dropboxConfig written is the one of the
           \* tenant as loadTenantRecord read it, with a new lastSyncedAt
           LET found == {i \in DOMAIN store.tenants :
                            store.tenants[i].id = call.mem.tenant[1].id} IN
           IF found = {} THEN Throws(call, NotFound, store)
           ELSE Returns(call,
                  [store EXCEPT !.tenants =
                     [i \in DOMAIN @ |->
                        IF i \in found
                        THEN [@[i] EXCEPT
                                !.dropbox = call.mem.tenant[1].dropbox,
                                !.appKey = call.mem.tenant[1].appKey,
                                !.appSecret = call.mem.tenant[1].appSecret,
                                !.refreshToken =
                                   call.mem.tenant[1].refreshToken,
                                !.rev = @ + 1]
                        ELSE @[i]]])

\* CoursesController.uploadCourseAttachment: no guard of its own; the
\* service gets the tenant id of the header as it was sent
uploadCourseAttachment(call, store) ==
    IF call.pc = "start" THEN Enter(call, store, "parseSingleFileUpload")
    ELSE uploadAttachment(call, "course",
                          extractTenantId(call.request.tenant).tenantId,
                          store)

\* ModulesController.uploadModuleAttachment
uploadModuleAttachment(call, store) ==
    IF call.pc \in GuardSteps
    THEN ModuleInCourse(call, store, "parseSingleFileUpload")
    ELSE uploadAttachment(call, "module",
                          RequestTenant(call.request).tenantId, store)

\* ChaptersController.uploadChapterAttachment
uploadChapterAttachment(call, store) ==
    IF call.pc \in GuardSteps
    THEN ChapterInModule(call, store, "parseSingleFileUpload")
    ELSE uploadAttachment(call, "chapter",
                          RequestTenant(call.request).tenantId, store)

(* TenantSettingsService *)

\* tenantRepository.findById(tenantId), as loadTenant awaits it
TenantById(store, tenantId) ==
    LET ById(t) == t.id = tenantId IN FirstOf(store.tenants, ById)

\* loadTenant(tenantId) once tenantRepository.findById has answered: the
\* call holds the tenant and goes on to the await of updateById
loadTenant(call, store) ==
    IF TenantById(store, call.request.body.tenantId) = <<>>
    THEN Throws(call, NotFound, store)
    ELSE Await([call EXCEPT !.mem.tenant =
                   TenantById(store, call.request.body.tenantId)],
               "tenantRepository.updateById", store)

\* tenantRepository.updateById(tenantId, data): the fields of data replace
\* those of the stored tenant, the others stay; then the await of findById
UpdateTenant(call, store, data) ==
    IF TenantById(store, call.request.body.tenantId) = <<>>
    THEN Throws(call, NotFound, store)
    ELSE Await(call, "tenantRepository.findById (updated)",
           [store EXCEPT !.tenants =
              [i \in DOMAIN @ |->
                 IF @[i].id = call.request.body.tenantId
                 THEN [f \in DOMAIN @[i] |->
                         IF f \in DOMAIN data THEN data[f]
                         ELSE IF f = "rev" THEN @[i].rev + 1
                         ELSE @[i][f]]
                 ELSE @[i]]])

\* tenantRepository.findById(tenantId) at the end of an update
ReloadTenant(call, store) ==
    IF TenantById(store, call.request.body.tenantId) = <<>>
    THEN Throws(call, NotFound, store)
    ELSE Returns(call, store)

\* TenantSettingsService.normalizeHostnames(hostnames)
normalizeHostnames(hostnames) ==
    LET NonEmpty(host) == host # <<>> IN
    Unique(SelectSeq([i \in DOMAIN hostnames |->
                         ToLowerCase(Trim(hostnames[i]))], NonEmpty))

\* TenantSettingsService.updateSettings(tenantId, payload): body.domain and
\* body.hostnames are the optional domain and hostnames of the payload, the
\* other fields of which are not followed.  The hostnames written are the
\* normalized ones of the payload or those of the tenant as it was loaded.
updateSettings(call, store) ==
    LET payload == call.request.body
        hostnames == IF payload.hostnames = <<>>
                     THEN call.mem.tenant[1].hostnames
                     ELSE normalizeHostnames(payload.hostnames[1])
        data == IF payload.domain = <<>>
                THEN [hostnames |-> hostnames]
                ELSE [domain |-> payload.domain[1], hostnames |-> hostnames]
    IN
    CASE call.pc = "start" -> Await(call, "tenantRepository.findById", store)
      [] call.pc = "tenantRepository.findById" -> loadTenant(call, store)
      [] call.pc = "tenantRepository.updateById" ->
           UpdateTenant(call, store, data)
      [] call.pc = "tenantRepository.findById (updated)" ->
           ReloadTenant(call, store)

\* TenantSettingsService.updateDropboxConfig(tenantId, config): body.status,
\* body.appKey, body.appSecret and body.refreshToken are the optional
\* properties of the config.  The dropboxConfig written is the one of the
\* tenant as it was loaded with the properties of the config over it; its
\* status is the one of the config, or the one of the tenant as it was
\* loaded, or pending.
updateDropboxConfig(call, store) ==
    LET config == call.request.body
        tenant == call.mem.tenant[1]
        Merged(given, stored) == IF given # <<>> THEN given[1] ELSE stored
        data == [dropbox |-> IF config.status # "" THEN config.status
                             ELSE IF tenant.dropbox # "none"
                             THEN tenant.dropbox
                             ELSE "pending",
                 appKey |-> Merged(config.appKey, tenant.appKey),
                 appSecret |-> Merged(config.appSecret, tenant.appSecret),
                 refreshToken |->
                     Merged(config.refreshToken, tenant.refreshToken)]
    IN
    CASE call.pc = "start" -> Await(call, "tenantRepository.findById", store)
      [] call.pc = "tenantRepository.findById" -> loadTenant(call, store)
      [] call.pc = "tenantRepository.updateById" ->
           UpdateTenant(call, store, data)
      [] call.pc = "tenantRepository.findById (updated)" ->
           ReloadTenant(call, store)

(* The router and the requests *)

\* The router: the handler a request is dispatched to, run for one step
Handle(call, store) ==
    CASE call.request.op = "createCourse" -> createCourse(call, store)
      [] call.request.op = "listCourses" -> listCourses(call, store)
      [] call.request.op = "getCourse" -> getCourse(call, store)
      [] call.request.op = "updateCourse" -> updateCourse(call, store)
      [] call.request.op = "uploadCourseAttachment" ->
           uploadCourseAttachment(call, store)
      [] call.request.op = "createModule" -> createModule(call, store)
      [] call.request.op = "listModules" -> listModules(call, store)
      [] call.request.op = "getModule" -> getModule(call, store)
      [] call.request.op = "updateModule" -> updateModule(call, store)
      [] call.request.op = "uploadModuleAttachment" ->
           uploadModuleAttachment(call, store)
      [] call.request.op = "deleteModule" -> deleteModule(call, store)
      [] call.request.op = "createChapter" -> createChapter(call, store)
      [] call.request.op = "listChapters" -> listChapters(call, store)
      [] call.request.op = "getChapter" -> getChapter(call, store)
      [] call.request.op = "updateChapter" -> updateChapter(call, store)
      [] call.request.op = "uploadChapterAttachment" ->
           uploadChapterAttachment(call, store)
      [] call.request.op = "deleteChapter" -> deleteChapter(call, store)
      [] call.request.op = "createSession" -> createSession(call, store)
      [] call.request.op = "listSessions" -> listSessions(call, store)
      [] call.request.op = "getSession" -> getSession(call, store)
      [] call.request.op = "updateSession" -> updateSession(call, store)
      [] call.request.op = "deleteSession" -> deleteSession(call, store)
      [] call.request.op = "scheduleReminder" -> scheduleReminder(call, store)
      [] call.request.op = "listReminders" -> listReminders(call, store)
      [] call.request.op = "updateReminder" -> updateReminder(call, store)
      [] call.request.op = "cancelReminder" -> cancelReminder(call, store)
      [] call.request.op = "upsertAttendance" -> upsertAttendance(call, store)
      [] call.request.op = "listAttendance" -> listAttendance(call, store)
      [] call.request.op = "deleteAttendance" -> deleteAttendance(call, store)
      [] call.request.op = "updateSettings" -> updateSettings(call, store)
      [] call.request.op = "updateDropboxConfig" ->
           updateDropboxConfig(call, store)

\* The x-tenant-id headers of the requests to the controllers
HeaderAB == << <<"A","_","B">> >>

HeaderC == << <<"c">> >>

NoBody ==
    [ userId |-> "", moduleId |-> <<>>, status |-> "", change |-> FALSE,
      reminderEnabled |-> <<>>, file |-> FALSE, dropbox |-> "ok",
      tenantId |-> <<>>, domain |-> <<>>, hostnames |-> <<>>,
      appKey |-> <<>>, appSecret |-> <<>>, refreshToken |-> <<>> ]

\* A body that sets a title or the notes
Edit == [NoBody EXCEPT !.change = TRUE]

\* Bodies of createCourse and updateCourse: with and without an instructor
CourseBodies ==
    { Edit, [Edit EXCEPT !.userId = "uA"], [Edit EXCEPT !.userId = "uC"] }

\* Bodies of createSession: an instructor of the tenant or one whose
\* tenantId is another, with or without a module of course c1 or of course
\* c2
SessionCreateBodies ==
    { [NoBody EXCEPT !.userId = "uA"],
      [NoBody EXCEPT !.userId = "uC"],
      [NoBody EXCEPT !.userId = "uA", !.moduleId = <<"m1">>],
      [NoBody EXCEPT !.userId = "uA", !.moduleId = <<"m2">>] }

\* Bodies of updateSession: nothing, notes, an instructor, a module, the
\* reminder flag
SessionUpdateBodies ==
    { NoBody, Edit,
      [NoBody EXCEPT !.userId = "uC"],
      [NoBody EXCEPT !.moduleId = <<"m1">>],
      [NoBody EXCEPT !.reminderEnabled = <<FALSE>>] }

AttendanceBodies ==
    { [NoBody EXCEPT !.userId = "uA", !.status = "absent"],
      [NoBody EXCEPT !.userId = "uC", !.status = "present"] }

\* Multipart bodies: the file and Dropbox accepting it, no file, Dropbox
\* refusing the token or the upload
FileBodies ==
    { [NoBody EXCEPT !.file = TRUE],
      NoBody,
      [NoBody EXCEPT !.file = TRUE, !.dropbox = "token refused"],
      [NoBody EXCEPT !.file = TRUE, !.dropbox = "upload refused"] }

Req(opNames, headers, paths, bodies) ==
    { [op |-> o, tenant |-> h, parent |-> p[1], child |-> p[2], body |-> b] :
        o \in opNames, h \in headers, p \in paths, b \in bodies }

File == [Edit EXCEPT !.file = TRUE]

\* The requests to CoursesController
CourseTraffic ==
    Req({"getCourse"}, {<<>>}, {<<"c1", "">>}, {NoBody})
    \cup Req({"getCourse"}, {HeaderAB}, {<<"c1", "">>}, {NoBody})
    \cup Req({"getCourse", "updateCourse"}, {HeaderC},
             {<<"c1", "">>, <<"c3", "">>}, {Edit})
    \cup Req({"listCourses"}, {HeaderAB}, {<<"", "">>}, {NoBody})
    \cup Req({"createCourse"}, {HeaderAB}, {<<"", "">>},
             {[Edit EXCEPT !.userId = "uA"], [Edit EXCEPT !.userId = "uC"]})
    \cup Req({"updateCourse"}, {HeaderAB}, {<<"c1", "">>}, {Edit, NoBody})
    \cup Req({"uploadCourseAttachment"}, {HeaderAB}, {<<"c1", "">>},
             FileBodies)
    \cup Req({"uploadCourseAttachment"}, {HeaderC},
             {<<"c1", "">>, <<"c3", "">>}, {File})

\* The requests to ModulesController
ModuleTraffic ==
    Req({"createModule", "listModules"}, {HeaderAB, HeaderC},
        {<<"c1", "">>}, {NoBody})
    \cup Req({"getModule", "deleteModule", "uploadModuleAttachment"},
             {HeaderAB}, {<<"c1", "m1">>, <<"c2", "m1">>}, {File})
    \cup Req({"updateModule", "uploadModuleAttachment"}, {HeaderC},
             {<<"c1", "m1">>, <<"c3", "m3">>}, {File})
    \cup Req({"updateModule"}, {HeaderAB}, {<<"c1", "m1">>}, {Edit, NoBody})
    \cup Req({"updateModule"}, {HeaderAB}, {<<"c1", "n1">>}, {Edit})

\* The requests to ChaptersController
ChapterTraffic ==
    Req({"createChapter", "listChapters"}, {HeaderAB, HeaderC},
        {<<"m1", "">>}, {NoBody})
    \cup Req({"getChapter", "deleteChapter", "uploadChapterAttachment"},
             {HeaderAB}, {<<"m1", "h1">>, <<"m2", "h1">>}, {File})
    \cup Req({"updateChapter"}, {HeaderAB, HeaderC}, {<<"m1", "h1">>},
             {Edit})

\* The requests to SessionsController
SessionTraffic ==
    Req({"createSession"}, {HeaderAB}, {<<"c1", "">>}, SessionCreateBodies)
    \cup Req({"createSession", "listSessions"}, {HeaderC}, {<<"c1", "">>},
             {[NoBody EXCEPT !.userId = "uC"]})
    \cup Req({"listSessions"}, {HeaderAB}, {<<"c1", "">>}, {NoBody})
    \cup Req({"getSession"}, {HeaderAB}, {<<"c1", "s1">>, <<"c2", "s1">>},
             {NoBody})
    \cup Req({"updateSession"}, {HeaderAB}, {<<"c1", "s1">>},
             SessionUpdateBodies)
    \cup Req({"updateSession", "deleteSession"}, {HeaderC},
             {<<"c1", "s1">>}, {Edit})
    \cup Req({"deleteSession"}, {HeaderAB}, {<<"c1", "s1">>, <<"c2", "s1">>},
             {NoBody})

\* The requests to SessionRemindersController
ReminderTraffic ==
    Req({"scheduleReminder", "listReminders"}, {HeaderAB, HeaderC},
        {<<"s1", "">>}, {NoBody})
    \cup Req({"updateReminder", "cancelReminder"}, {HeaderAB},
             {<<"s1", "r1">>, <<"s2", "r1">>}, {NoBody})
    \cup Req({"cancelReminder"}, {HeaderC}, {<<"s1", "r1">>}, {NoBody})

\* The requests to SessionAttendanceController
AttendanceTraffic ==
    Req({"upsertAttendance"}, {HeaderAB}, {<<"s1", "">>}, AttendanceBodies)
    \cup Req({"upsertAttendance", "listAttendance"}, {HeaderC},
             {<<"s1", "">>},
             {[NoBody EXCEPT !.userId = "uC", !.status = "present"]})
    \cup Req({"listAttendance"}, {HeaderAB}, {<<"s1", "">>}, {NoBody})
    \cup Req({"deleteAttendance"}, {HeaderAB},
             {<<"s1", "a1">>, <<"s2", "a1">>}, {NoBody})
    \cup Req({"deleteAttendance"}, {HeaderC}, {<<"s1", "a1">>}, {NoBody})

\* Payloads of updateSettings for the tenant of record t2: a domain, and
\* hostnames to normalize
SettingsBodies ==
    { [NoBody EXCEPT !.tenantId = <<"t","2">>,
                     !.domain = << <<"c",".","x">> >>],
      [NoBody EXCEPT !.tenantId = <<"t","2">>,
                     !.hostnames = << << <<" ","C",".","x">>, <<" ">>,
                                        <<"c",".","x">> >> >>] }

\* Configs of updateDropboxConfig: a status, none, or an appSecret that is
\* empty, for the tenant a_b, and a status for a tenant that is not stored
DropboxConfigBodies ==
    { [NoBody EXCEPT !.tenantId = <<"a","_","b">>, !.status = "pending"],
      [NoBody EXCEPT !.tenantId = <<"a","_","b">>],
      [NoBody EXCEPT !.tenantId = <<"a","_","b">>, !.appSecret = <<"">>],
      [NoBody EXCEPT !.tenantId = <<"z">>, !.status = "connected"] }

\* The calls of TenantSettingsService, with the header of the request the
\* service is constructed for: the dropboxConfig of tenant a_b is written
\* in the database of a_b, the domain and hostnames of the tenant of
\* record t2 in the database of c
SettingsTraffic ==
    Req({"updateDropboxConfig"}, {HeaderAB}, {<<"", "">>},
        DropboxConfigBodies)
    \cup Req({"updateSettings"}, {HeaderC}, {<<"", "">>}, SettingsBodies)

\* The requests sent to the controllers.  For every controller: requests
\* for the records of the caller's tenant, the same paths under the other
\* tenant's header, children addressed under a parent that is not their
\* own, and a record the run has created.
Traffic ==
    CourseTraffic \cup ModuleTraffic \cup ChapterTraffic
      \cup SessionTraffic \cup ReminderTraffic \cup AttendanceTraffic
      \cup SettingsTraffic

\* The database of the request: the one TenantDataSourceProvider binds the
\* repositories of the handler to
StoreOf(request) == db.tenant[TenantDatabase(request.tenant)]

\* The response of a handler that has ended, with the handler as it ended
Response(r) == [status |-> r.status, message |-> r.message, call |-> r.call]

\* The handler of a request that arrives, about to run
Arrives(request) == Invocation(db.started + 1, request)

\* A request arrives and its handler has run from its first line to its
\* first await, which left r.  At most `max` handlers are started.
Starts(r, max) ==
    /\ db.started < max
    /\ IF r.call.pc = "done"
       THEN last' = Response(r) /\ UNCHANGED calls
       ELSE calls' = Append(calls, r.call) /\ UNCHANGED last
    /\ db' = [db EXCEPT !.started = @ + 1]
    /\ UNCHANGED <<regVars, authVars, authz, users, cms, pipe, probe>>

\* A request arrives at the router.  No handler reads a repository before
\* its first await.
Start(request, max) == Starts(Handle(Arrives(request), EmptyStore), max)

\* The call a suspended handler awaits is answered: the call takes effect
\* on the database of the request and the handler runs to its next await,
\* or to its end
Resume(i) ==
    LET database == TenantDatabase(calls[i].request.tenant)
        r == Handle(calls[i], db.tenant[database])
    IN
    /\ calls[i].pc # "done"
    /\ db' = [db EXCEPT !.tenant[database] = r.db]
    /\ IF r.call.pc = "done"
       THEN calls' = WithoutCall(i) /\ last' = Response(r)
       ELSE calls' = [calls EXCEPT ![i] = r.call] /\ UNCHANGED last
    /\ UNCHANGED <<regVars, authVars, authz, users, cms, pipe, probe>>

\* The requests that mark attendance for session s1 of tenant a_b
MarkRequests ==
    Req({"upsertAttendance"}, {HeaderAB}, {<<"s1", "">>},
        AttendanceBodies
          \cup {[NoBody EXCEPT !.userId = "uA", !.status = "present"]})
    \cup Req({"deleteAttendance"}, {HeaderAB},
             {<<"s1", "a1">>, <<"s1", "n1">>}, {NoBody})

----------------------------------------------------------------------------
(* services/cms-content.service: CmsContentService *)

\* The service is constructed for the requests of one tenant: its
\* repositories are bound to the database of the tenant, and the controller
\* hands it the sanitized tenant id of the header
CmsTenants == {<<"a","_","b">>}

\* The ids cmsContentRepository.create gives the contents, in order
CmsContentIds == <<"k1", "k2", "k3">>

\* The content ids the requests name: those of the two contents, neither
\* of which is stored until it is created
CmsIds == {"k1", "k2"}

\* The properties of a content that are followed, besides its id and version
CmsProperties == {"title", "slug", "locale", "status", "tenantId"}

\* A payload that carries none of them
NoCmsChange == [f \in CmsProperties |-> <<>>]

\* Payloads of createDraft: a title alone; with a slug to normalize; with
\* the slug and a locale
CmsCreatePayloads ==
    { [NoCmsChange EXCEPT !.title = <<"t1">>],
      [NoCmsChange EXCEPT !.title = <<"t1">>, !.slug = << <<" ","S">> >>],
      [NoCmsChange EXCEPT !.title = <<"t1">>, !.slug = << <<" ","S">> >>,
                          !.locale = << <<"f","r">> >>] }

\* Payloads of updateDraft: a title; a slug to normalize; a blank slug; a
\* locale; the empty locale; a status and another tenant id
CmsPayloads ==
    { [NoCmsChange EXCEPT !.title = <<"t2">>],
      [NoCmsChange EXCEPT !.slug = << <<" ","S">> >>],
      [NoCmsChange EXCEPT !.slug = << <<" ">> >>],
      [NoCmsChange EXCEPT !.locale = << <<"f","r">> >>],
      [NoCmsChange EXCEPT !.locale = << <<>> >>],
      [NoCmsChange EXCEPT !.status = <<"published">>,
                          !.tenantId = << <<"c">> >>] }

\* The truth of an optional string, as `if (!slug)` and
\* `payload.slug || payload.locale` test it: given and not empty
Truthy(option) == option # <<>> /\ option[1] # <<>>

\* value.replace(/\s+/g, '-')
RECURSIVE DashWhitespace(_)
DashWhitespace(s) ==
    IF s = <<>> THEN <<>>
    ELSE IF Head(s) \in WhitespaceChars
    THEN <<"-">> \o DashWhitespace(TrimStart(s))
    ELSE <<Head(s)>> \o DashWhitespace(Tail(s))

\* CmsContentService.normalizeSlug(slug)
normalizeSlug(slug) == DashWhitespace(ToLowerCase(Trim(slug)))

\* cmsContentRepository.findById(id), as a set: the content, or nothing
CmsFind(id) == {c \in Range(cms.contents) : c.id = id}

\* The query of ensureUniqueSlug(tenantId, slug, locale, currentId):
\* findOne({tenantId, slug: slug.trim().toLowerCase(), locale,
\* id: {neq: currentId}}) finds a content.  A content stored without a slug
\* does not match the empty slug; createDraft gives no currentId, and a
\* condition that is undefined is left out of the query.
SlugInUse(tenantId, slug, locale, currentId) ==
    \E c \in Range(cms.contents) :
        /\ c.tenantId = tenantId
        /\ c.slug = <<ToLowerCase(Trim(slug))>>
        /\ c.locale = locale
        /\ c.id # currentId

\* A suspended call of the service: where it resumes and what it holds
CmsCall(op, pc, tenantId, id, payload, status, version, content) ==
    [ op |-> op, pc |-> pc, tenantId |-> tenantId, id |-> id,
      payload |-> payload, status |-> status, version |-> version,
      content |-> content ]

\* The calls of the service that write the status of a content
CmsStatusOps == {"publish", "unpublish", "archive"}

\* The calls of the service that have not returned yet
CmsInFlight ==
    {i \in DOMAIN calls :
        calls[i].op \in {"createDraft", "updateDraft"} \cup CmsStatusOps}

\* payload.locale ?? 'en', as createDraft hands it to ensureUniqueSlug and
\* stores it
CreateLocale(call) ==
    IF call.payload.locale # <<>> THEN call.payload.locale[1]
    ELSE <<"e","n">>

\* createDraft(tenantId, payload) up to its first await; the payload is the
\* body of the request as it was sent.  ensureUniqueSlug(tenantId,
\* payload.slug, payload.locale ?? 'en') returns at once when the payload
\* has no slug or an empty one, and awaits its query otherwise.  At most
\* MaxDrafts contents are created in a run.
CreateDraft(tenantId, payload) ==
    /\ Len(cms.contents)
         + Cardinality({i \in DOMAIN calls : calls[i].op = "createDraft"})
           < MaxDrafts
    /\ Cardinality(CmsInFlight) < MaxOverlap
    /\ calls' = Append(calls, CmsCall("createDraft",
                                      IF Truthy(payload.slug)
                                      THEN "cmsContentRepository.findOne"
                                      ELSE "ensureUniqueSlug",
                                      tenantId, "", payload, "draft", 1, <<>>))
    /\ UNCHANGED <<regVars, authVars, authz, db, last, users, cms, pipe, probe>>

\* ensureUniqueSlug of a suspended createDraft: without a slug it returns
\* having made no query; with one, cmsContentRepository.findOne answers and
\* a content found ends the call with BadRequest.  Otherwise the call goes
\* on to the await of cmsContentRepository.create.
CreateDraftSlug(i) ==
    /\ calls[i].op = "createDraft"
    /\ calls[i].pc \in {"ensureUniqueSlug", "cmsContentRepository.findOne"}
    /\ IF /\ calls[i].pc = "cmsContentRepository.findOne"
          /\ SlugInUse(calls[i].tenantId, calls[i].payload.slug[1],
                       CreateLocale(calls[i]), "")
       THEN /\ last' = [status |-> "BadRequest",
                        message |-> "Slug already in use for this locale"]
            /\ calls' = WithoutCall(i)
       ELSE /\ calls' = [calls EXCEPT ![i].pc = "cmsContentRepository.create"]
            /\ UNCHANGED last
    /\ UNCHANGED <<regVars, authVars, authz, db, users, cms, pipe, probe>>

\* cmsContentRepository.create({...payload, slug: normalizedSlug, tenantId,
\* locale: payload.locale ?? 'en', status: 'draft', version: 1}) of a
\* suspended createDraft: the content is created with the normalized slug
\* of the payload, or without a slug when the payload has none or an empty
\* one, and the call goes on to the await of saveRevision
CreateDraftCreate(i) ==
    LET content == [id |-> CmsContentIds[Len(cms.contents) + 1],
                    tenantId |-> calls[i].tenantId,
                    title |-> calls[i].payload.title[1],
                    slug |-> IF Truthy(calls[i].payload.slug)
                             THEN <<normalizeSlug(calls[i].payload.slug[1])>>
                             ELSE <<>>,
                    locale |-> CreateLocale(calls[i]),
                    status |-> "draft", version |-> 1]
    IN
    /\ calls[i].op = "createDraft"
    /\ calls[i].pc = "cmsContentRepository.create"
    /\ cms' = [cms EXCEPT !.contents = Append(@, content)]
    /\ calls' = [calls EXCEPT ![i].pc = "saveRevision",
                              ![i].content = <<content>>]
    /\ UNCHANGED <<regVars, authVars, authz, db, last, users, pipe, probe>>

\* updateDraft(tenantId, id, payload) up to its first await, of
\* loadForTenant; the payload is the body of the request as it was sent
\* (CMS_CONTENT_UPDATE_SCHEMA admits properties it does not list).  At most
\* MaxEdits calls are made.
UpdateDraft(tenantId, id, payload) ==
    /\ cms.edits < MaxEdits
    /\ Cardinality(CmsInFlight) < MaxOverlap
    /\ cms' = [cms EXCEPT !.edits = @ + 1]
    /\ calls' = Append(calls, CmsCall("updateDraft", "loadForTenant",
                                      tenantId, id, payload, "", 0, <<>>))
    /\ UNCHANGED <<regVars, authVars, authz, db, last, users, pipe, probe>>

\* payload.slug ?? content.slug, as updateDraft hands it to
\* ensureUniqueSlug: the slug of the payload, or that of the content as
\* loaded, which may have none
NextSlug(call) ==
    IF call.payload.slug # <<>> THEN call.payload.slug
    ELSE call.content[1].slug

\* payload.locale ?? content.locale ?? 'en'
NextLocale(call) ==
    IF call.payload.locale # <<>> THEN call.payload.locale[1]
    ELSE call.content[1].locale

\* loadForTenant of a suspended updateDraft: cmsContentRepository.findById
\* answers and the tenant is compared.  The call holds the content; when
\* payload.slug || payload.locale is true and there is a slug to look for
\* it goes on to the query of ensureUniqueSlug, otherwise to the await of
\* updateById.
UpdateDraftLoad(i) ==
    /\ calls[i].op = "updateDraft" /\ calls[i].pc = "loadForTenant"
    /\ IF CmsFind(calls[i].id) = {}
       THEN /\ last' = [status |-> "NotFound", message |-> "Entity not found"]
            /\ calls' = WithoutCall(i)
       ELSE LET content == CHOOSE c \in CmsFind(calls[i].id) : TRUE
                held == [calls[i] EXCEPT !.content = <<content>>]
            IN
            IF content.tenantId # calls[i].tenantId
            THEN /\ last' = [status |-> "Forbidden",
                             message |-> "Content does not belong to this tenant"]
                 /\ calls' = WithoutCall(i)
            ELSE /\ calls' = [calls EXCEPT ![i] =
                                [held EXCEPT !.pc =
                                   IF /\ (Truthy(held.payload.slug)
                                            \/ Truthy(held.payload.locale))
                                      /\ Truthy(NextSlug(held))
                                   THEN "cmsContentRepository.findOne"
                                   ELSE "updateById"]]
                 /\ UNCHANGED last
    /\ UNCHANGED <<regVars, authVars, authz, db, users, cms, pipe, probe>>

\* ensureUniqueSlug(tenantId, nextSlug, nextLocale, id) of a suspended
\* updateDraft: cmsContentRepository.findOne answers
UpdateDraftSlug(i) ==
    /\ calls[i].op = "updateDraft"
    /\ calls[i].pc = "cmsContentRepository.findOne"
    /\ IF SlugInUse(calls[i].tenantId, NextSlug(calls[i])[1],
                    NextLocale(calls[i]), calls[i].id)
       THEN /\ last' = [status |-> "BadRequest",
                        message |-> "Slug already in use for this locale"]
            /\ calls' = WithoutCall(i)
       ELSE /\ calls' = [calls EXCEPT ![i].pc = "updateById"]
            /\ UNCHANGED last
    /\ UNCHANGED <<regVars, authVars, authz, db, users, cms, pipe, probe>>

\* {...payload, slug: normalizedSlug ?? payload.slug ?? content.slug,
\* version}: every property the payload carries, the slug of the payload
\* normalized (an empty one as it is) or the one of the content as it was
\* loaded, and the version after the one that was loaded.  A content
\* loaded without a slug gives no slug to write.
DraftData(call) ==
    [f \in CmsProperties \cup {"version"} |->
        CASE f = "version" -> <<call.content[1].version + 1>>
          [] f = "slug" -> IF Truthy(call.payload.slug)
                           THEN <<normalizeSlug(call.payload.slug[1])>>
                           ELSE IF call.payload.slug # <<>>
                           THEN call.payload.slug
                           ELSE call.content[1].slug
          [] OTHER -> call.payload[f]]

\* cmsContentRepository.updateById(id, data) of a suspended updateDraft:
\* the properties the data gives replace those of the stored content, and
\* those it leaves undefined stay as they are stored
UpdateDraftWrite(i) ==
    /\ calls[i].op = "updateDraft" /\ calls[i].pc = "updateById"
    /\ cms' = [cms EXCEPT !.contents =
                 [n \in DOMAIN @ |->
                     IF @[n].id = calls[i].id
                     THEN [f \in DOMAIN @[n] |->
                             IF f \in DOMAIN DraftData(calls[i])
                             THEN IF DraftData(calls[i])[f] = <<>>
                                  THEN @[n][f]
                                  ELSE IF f = "slug"
                                  THEN DraftData(calls[i])[f]
                                  ELSE DraftData(calls[i])[f][1]
                             ELSE @[n][f]]
                     ELSE @[n]]]
    /\ calls' = [calls EXCEPT ![i].pc = "findById"]
    /\ UNCHANGED <<regVars, authVars, authz, db, last, users, pipe, probe>>

\* cmsContentRepository.findById(id) of a suspended updateDraft: the content
\* as it is stored now
UpdateDraftReload(i) ==
    /\ calls[i].op = "updateDraft" /\ calls[i].pc = "findById"
    /\ calls' = [calls EXCEPT
                   ![i].pc = "saveRevision",
                   ![i].content = <<CHOOSE c \in CmsFind(calls[i].id) : TRUE>>]
    /\ UNCHANGED <<regVars, authVars, authz, db, last, users, cms, pipe, probe>>

\* publish(tenantId, id, actorId, publishAt) up to its first await, of
\* loadForTenant; `scheduled` says whether publishAt is given.  At most
\* MaxEdits calls of updateDraft, publish, unpublish and archive are made.
Publish(tenantId, id, scheduled) ==
    /\ cms.edits < MaxEdits
    /\ Cardinality(CmsInFlight) < MaxOverlap
    /\ cms' = [cms EXCEPT !.edits = @ + 1]
    /\ calls' = Append(calls,
                       CmsCall("publish", "loadForTenant", tenantId, id,
                               NoCmsChange,
                               IF scheduled THEN "scheduled" ELSE "published",
                               0, <<>>))
    /\ UNCHANGED <<regVars, authVars, authz, db, last, users, pipe, probe>>

\* unpublish(tenantId, id, actorId) up to its first await
Unpublish(tenantId, id) ==
    /\ cms.edits < MaxEdits
    /\ Cardinality(CmsInFlight) < MaxOverlap
    /\ cms' = [cms EXCEPT !.edits = @ + 1]
    /\ calls' = Append(calls, CmsCall("unpublish", "loadForTenant", tenantId,
                                      id, NoCmsChange, "draft", 0, <<>>))
    /\ UNCHANGED <<regVars, authVars, authz, db, last, users, pipe, probe>>

\* archive(tenantId, id, actorId) up to its first await
Archive(tenantId, id) ==
    /\ cms.edits < MaxEdits
    /\ Cardinality(CmsInFlight) < MaxOverlap
    /\ cms' = [cms EXCEPT !.edits = @ + 1]
    /\ calls' = Append(calls, CmsCall("archive", "loadForTenant", tenantId,
                                      id, NoCmsChange, "archived", 0, <<>>))
    /\ UNCHANGED <<regVars, authVars, authz, db, last, users, pipe, probe>>

\* loadForTenant of a suspended publish, unpublish or archive:
\* cmsContentRepository.findById answers and the tenant is compared; of an
\* archived content publish is refused and unpublish and archive return;
\* otherwise the call goes on to the await of updateById
StatusLoad(i) ==
    /\ calls[i].op \in CmsStatusOps /\ calls[i].pc = "loadForTenant"
    /\ IF CmsFind(calls[i].id) = {}
       THEN /\ last' = [status |-> "NotFound", message |-> "Entity not found"]
            /\ calls' = WithoutCall(i)
       ELSE LET content == CHOOSE c \in CmsFind(calls[i].id) : TRUE IN
            IF content.tenantId # calls[i].tenantId
            THEN /\ last' = [status |-> "Forbidden",
                             message |-> "Content does not belong to this tenant"]
                 /\ calls' = WithoutCall(i)
            ELSE IF content.status = "archived"
            THEN /\ last' = IF calls[i].op = "publish"
                            THEN [status |-> "BadRequest",
                                  message |->
                                    "Archived content cannot be published"]
                            ELSE [status |-> "ok", message |-> ""]
                 /\ calls' = WithoutCall(i)
            ELSE /\ calls' = [calls EXCEPT ![i].pc = "updateById"]
                 /\ UNCHANGED last
    /\ UNCHANGED <<regVars, authVars, authz, db, users, cms, pipe, probe>>

\* cmsContentRepository.updateById(id, {status, ...}) of a suspended
\* publish, unpublish or archive
StatusWrite(i) ==
    /\ calls[i].op \in CmsStatusOps /\ calls[i].pc = "updateById"
    /\ cms' = [cms EXCEPT !.contents =
                 [n \in DOMAIN @ |->
                     IF @[n].id = calls[i].id
                     THEN [@[n] EXCEPT !.status = calls[i].status]
                     ELSE @[n]]]
    /\ calls' = [calls EXCEPT ![i].pc = "findById"]
    /\ UNCHANGED <<regVars, authVars, authz, db, last, users, pipe, probe>>

\* cmsContentRepository.findById(id) of a suspended publish, unpublish or
\* archive: the content as it is stored now
StatusReload(i) ==
    /\ calls[i].op \in CmsStatusOps /\ calls[i].pc = "findById"
    /\ calls' = [calls EXCEPT
                   ![i].pc = "saveRevision",
                   ![i].content = <<CHOOSE c \in CmsFind(calls[i].id) : TRUE>>]
    /\ UNCHANGED <<regVars, authVars, authz, db, last, users, cms, pipe, probe>>

\* saveRevision(content) of a suspended call, which then returns.  `op`
\* records which method wrote the revision; the code stores no such field.
SaveRevision(i) ==
    /\ calls[i].op \in {"createDraft", "updateDraft"} \cup CmsStatusOps
    /\ calls[i].pc = "saveRevision"
    /\ cms' = [cms EXCEPT !.revisions =
                 Append(@, [ cmsContentId |-> calls[i].content[1].id,
                             tenantId |-> calls[i].content[1].tenantId,
                             version  |-> calls[i].content[1].version,
                             op       |-> calls[i].op ])]
    /\ calls' = WithoutCall(i)
    /\ last' = [status |-> "ok", message |-> ""]
    /\ UNCHANGED <<regVars, authVars, authz, db, users, pipe, probe>>

\* No content, no revision, no call made on a content
CmsIdle == cms = [contents |-> <<>>, revisions |-> <<>>, edits |-> 0]

\* No user registered, no handler suspended
AccountIdle ==
    /\ users = [d \in DatabaseNames |-> <<>>]
    /\ calls = <<>>

\* The services before the first request
ServicesIdle ==
    /\ AccountIdle
    /\ CmsIdle
    /\ pipe = <<>>
    /\ probe = <<>>

----------------------------------------------------------------------------
(* The REST sequence: the stages of one tenant-scoped authenticated       *)
(* request, POST /courses/{courseId}/modules                               *)

\* The times datasources.mongoTenant is injected when ModulesController is
\* constructed: into its ModuleRepository and CourseRepository, and into the
\* TenantRepository, CourseRepository, ModuleRepository and ChapterRepository
\* of its DropboxAttachmentService
ModulesControllerInjections == 6

\* n injections of datasources.mongoTenant in one turn: the provider is
\* transient, so value() runs once for each
RECURSIVE Injected(_, _, _)
Injected(registry, header, n) ==
    IF n = 0 THEN registry
    ELSE Injected(value(registry, header), header, n - 1)

\* The identities that send requests: those of Profiles and a student
PipeProfiles ==
    Profiles \cup
    { [ id |-> "u3", email |-> "u3@x.com", tenantId |-> <<"a","_","b">>,
        roles |-> <<"student">>, name |-> <<>>, permissions |-> <<>> ] }

\* The x-tenant-id headers of the requests: absent, failing the pattern, and
\* two tenants
PipeTenantHeaders ==
    { <<>>, << <<"a","!">> >>, << <<"A","-","B">> >>, << <<"c">> >> }

\* The Authorization headers of the requests: absent, a token that is no
\* JWT, and the tokens issued
PipeAuthorizations ==
    { <<>>, Bearer(MalformedToken) } \cup { Bearer(t) : t \in IssuedTokens }

PipeRequests ==
    [ tenantHeader : PipeTenantHeaders, authorization : PipeAuthorizations,
      courseId : {"c1"} ]

\* @authorize({allowedRoles: ['tenantAdmin', 'instructor']}) of createModule
CreateModuleAllowedRoles == << <<"tenantAdmin", "instructor">> >>

\* The request as the controller of the course tree reads it
CreateModuleRequest(request) ==
    [ op |-> "createModule", tenant |-> request.tenantHeader,
      parent |-> request.courseId, child |-> "", body |-> NoBody ]

\* The request in the sequence: the stage it is about to enter ("done" and
\* "failed" once it has ended), the stages it has entered, what the tenant
\* middleware bound, the identity authentication gave, the current user
\* profile its controller was constructed with (none while no controller is
\* constructed), and the store and the registry as they were when the
\* request arrived
Staged(request, stage, trace, bound, principal, store, registry) ==
    [ request |-> request, stage |-> stage, trace |-> trace, bound |-> bound,
      principal |-> principal, controller |-> <<>>, store |-> store,
      registry |-> registry ]

\* The request enters its next stage, or ends
Advance(p, stage) ==
    [p EXCEPT !.stage = stage, !.trace = Append(@, p.stage)]

InStage(stage) == pipe # <<>> /\ pipe[1].stage = stage

\* A request arrives when the one before it has ended
Receive(request) ==
    /\ IF pipe = <<>> THEN TRUE ELSE pipe[1].stage \in {"done", "failed"}
    /\ pipe' = << Staged(request, "tenant", <<>>, <<>>, <<>>, db.tenant,
                         Registry) >>
    /\ UNCHANGED <<regVars, authVars, authz, db, last, users, calls, cms,
                   probe>>

\* TenantContextMiddlewareProvider binds CURRENT_TENANT_ID or ends the request
StageTenant ==
    /\ InStage("tenant")
    /\ LET p == pipe[1]
           r == TenantContextMiddleware(p.request.tenantHeader)
       IN IF r.status # "ok"
          THEN /\ pipe' = << Advance(p, "failed") >>
               /\ last' = [status |-> r.status, message |-> "x-tenant-id"]
          ELSE /\ pipe' = << [Advance(p, "authenticate") EXCEPT
                                !.bound = r.bound] >>
               /\ UNCHANGED last
    /\ UNCHANGED <<regVars, authVars, authz, db, users, calls, cms, probe>>

\* @authenticate('jwt'): JWTStrategy.authenticate sets the identity or ends
\* the request
StageAuthenticate ==
    /\ InStage("authenticate")
    /\ LET p == pipe[1]
           r == authenticate([ authorization |-> p.request.authorization,
                               tenantHeader  |-> p.request.tenantHeader ])
       IN /\ lastCall' = r
          /\ IF r.status # "ok"
             THEN /\ pipe' = << Advance(p, "failed") >>
                  /\ last' = [status |-> r.status, message |-> r.message]
             ELSE /\ pipe' = << [Advance(p, "connection") EXCEPT
                                   !.principal = <<r.profile>>] >>
                  /\ UNCHANGED last
    /\ UNCHANGED <<env, now, issued>>
    /\ UNCHANGED <<regVars, authz, db, users, calls, cms, probe>>

\* The controller of the route is constructed for the request: every
\* injection of datasources.mongoTenant into its repositories and into
\* those of its service runs TenantDataSourceProvider.value(), and the
\* constructor receives SecurityBindings.USER, the identity authentication
\* bound, as currentUserProfile
StageConnection ==
    /\ InStage("connection")
    /\ RegistryBecomes(Injected(Registry, pipe[1].request.tenantHeader,
                                ModulesControllerInjections))
    /\ pipe' = << [Advance(pipe[1], "authorize") EXCEPT
                     !.controller =
                        << [currentUserProfile |-> pipe[1].principal] >>] >>
    /\ UNCHANGED <<authVars, authz, db, last, users, calls, cms, probe>>

\* What a denial of the authorizer ends the request with
AuthorizationDenied == [status |-> "Forbidden", message |-> "Access denied"]

\* @authorize: the interceptor calls the authorizer for the identity and
\* the roles of the endpoint; the authorizer is suspended at
\* invocationContext.get(CURRENT_TENANT_ID), with no decision
StageAuthorize ==
    /\ InStage("authorize")
    /\ LET p == pipe[1] IN
          /\ authz' = [ principal        |-> p.principal,
                        invocationTenant |-> p.bound,
                        allowedRoles     |-> CreateModuleAllowedRoles,
                        pc               |-> "invocationContext.get",
                        decision         |-> "none" ]
          /\ pipe' = << Advance(p, "authorizing") >>
    /\ UNCHANGED <<regVars, authVars, db, last, users, calls, cms, probe>>

\* invocationContext.get answers the authorizer, which decides for the
\* identity, the bound tenant and the roles of the endpoint; a decision
\* other than ALLOW ends the request
StageAuthorizeResumes ==
    /\ InStage("authorizing")
    /\ LET d == authorize(authz.principal, authz.invocationTenant,
                          authz.allowedRoles)
       IN /\ authz' = [authz EXCEPT !.pc = "done", !.decision = d]
          /\ IF d # "ALLOW"
             THEN /\ pipe' = << [pipe[1] EXCEPT !.stage = "failed"] >>
                  /\ last' = AuthorizationDenied
             ELSE /\ pipe' = << [pipe[1] EXCEPT !.stage = "handler"] >>
                  /\ UNCHANGED last
    /\ UNCHANGED <<regVars, authVars, db, users, calls, cms, probe>>

\* ModulesController.createModule is entered: the handler runs to its first
\* await
StageHandler ==
    /\ InStage("handler")
    /\ db.started < MaxCalls
    /\ LET p == pipe[1]
           r == Handle(Invocation(db.started + 1,
                                  CreateModuleRequest(p.request)),
                       StoreOf(CreateModuleRequest(p.request)))
       IN /\ calls' = <<r.call>>
          /\ pipe' = << Advance(p, "handling") >>
    /\ db' = [db EXCEPT !.started = @ + 1]
    /\ UNCHANGED <<regVars, authVars, authz, last, users, cms, probe>>

\* The call the handler awaits is answered: the handler runs to its next
\* await, or ends the request
StageHandlerResumes ==
    /\ pipe # <<>>
    /\ IF pipe = <<>> THEN FALSE ELSE pipe[1].stage = "handling"
    /\ LET database == TenantDatabase(calls[1].request.tenant)
           r == Handle(calls[1], db.tenant[database])
       IN /\ db' = [db EXCEPT !.tenant[database] = r.db]
          /\ IF r.call.pc = "done"
             THEN /\ calls' = <<>>
                  /\ last' = Response(r)
                  /\ pipe' = << [pipe[1] EXCEPT !.stage =
                                   IF r.status = "ok" THEN "done"
                                   ELSE "failed"] >>
             ELSE /\ calls' = <<r.call>>
                  /\ UNCHANGED <<last, pipe>>
    /\ UNCHANGED <<regVars, authVars, authz, users, cms, probe>>

----------------------------------------------------------------------------
(* Tokens and authentication: properties *)

IsRefreshToken(token) ==
    token.wellFormed /\ token.kind = "object"
      /\ token.claims.tokenType = <<"refresh">>

IsAccessToken(token) ==
    token.wellFormed /\ token.kind = "object"
      /\ token.claims.tokenType = <<"access">>

\* The secret verifyAccessToken / verifyRefreshToken hand to verifyToken
SecretFor(expectedType) ==
    IF expectedType = "access" THEN TokenSecret ELSE RefreshTokenSecret

\* The request named the tenant the token's tenantId claim names
NamesTokenTenant(call) ==
    /\ extractTenantId(call.tenant).status = "ok"
    /\ sanitizeTenantId(extractTenantId(call.tenant).tenantId)
         = sanitizeTenantId(call.token.claims.tenantId)

\* C7: only access tokens authenticate.  A request whose bearer token is a
\* refresh token is answered Unauthorized by authenticate, and an issued
\* access token is answered Unauthorized by verifyRefreshToken, whatever the
\* two secrets are.  (Stated for the requests whose x-tenant-id names the
\* token's own tenant; the tenant header is read only after the token has
\* been accepted.)
C7_OnlyAccessTokensAuthenticate ==
    /\ (lastCall.op = "authenticate" /\ IsRefreshToken(lastCall.token)
          /\ NamesTokenTenant(lastCall))
          => lastCall.status = "Unauthorized"
    /\ \A t \in IssuedTokens :
          IsAccessToken(t) => verifyRefreshToken(t).status = "Unauthorized"

\* C8: token round trip.  For every answered generateTokenPair(profile):
\* until it expires the access token verifies as an access token with the
\* profile's sub, tenantId and roles and tokenType access, and the refresh
\* token likewise as a refresh token; the access token never verifies as a
\* refresh token nor the refresh token as an access token; and whenever a
\* verify call on an issued token succeeded its claims are the profile's.
C8_TokenRoundTrip ==
    \A i \in issued :
        LET a == i.response.accessToken
            r == i.response.refreshToken
            Matches(v, tokenType) ==
                /\ v.status = "ok"
                /\ v.claims.sub = i.profile.id
                /\ v.claims.tenantId = i.profile.tenantId
                /\ v.claims.roles = <<i.profile.roles>>
                /\ v.claims.tokenType = <<tokenType>>
        IN
        /\ now < a.claims.iat[1] + TokenExpiresIn
              => Matches(verifyAccessToken(a), "access")
        /\ now < r.claims.iat[1] + RefreshExpiresIn
              => Matches(verifyRefreshToken(r), "refresh")
        /\ verifyRefreshToken(a).status = "Unauthorized"
        /\ verifyAccessToken(r).status = "Unauthorized"
        /\ (lastCall.status = "ok" /\ lastCall.token = a)
              => /\ lastCall.op # "verifyRefreshToken"
                 /\ lastCall.op = "verifyAccessToken"
                      => Matches(lastCall, "access")
        /\ (lastCall.status = "ok" /\ lastCall.token = r)
              => /\ lastCall.op # "verifyAccessToken"
                 /\ lastCall.op = "verifyRefreshToken"
                      => Matches(lastCall, "refresh")

\* C8 witness: with both secrets equal, the refresh token of an issued pair
\* was verified as a refresh token and gave the profile's sub, while the
\* pair's access token has expired.
C8_Witness ==
    \E i \in issued :
        /\ TokenSecret = RefreshTokenSecret
        /\ lastCall.op = "verifyRefreshToken"
        /\ lastCall.token = i.response.refreshToken
        /\ lastCall.status = "ok"
        /\ lastCall.claims.sub = i.profile.id
        /\ now >= i.response.accessToken.claims.exp[1]

\* C9: a constructed token service never has equal access and refresh
\* secrets, so no issued token verifies under the other secret.
C9_SecretsDiffer ==
    ServiceConstructed =>
        /\ TokenSecret # RefreshTokenSecret
        /\ \A i \in issued :
              /\ JwtVerify(i.response.accessToken, RefreshTokenSecret).thrown
              /\ JwtVerify(i.response.refreshToken, TokenSecret).thrown

\* Every result a verification of a presentable token fails with, in this
\* state
FailedVerifications ==
    { r \in { verifyToken(t, SecretFor(e), e) :
                t \in PresentableTokens, e \in {"access", "refresh"} } :
        r.status # "ok" }

\* C10: failing verifications cannot be told apart.  Whichever check failed
\* (signature, expiry, string payload, tokenType), for any presentable token
\* and expected type, the caller gets one and the same result: Unauthorized
\* with the message `Invalid or expired token` and no claims.
C10_OpaqueVerificationFailure ==
    /\ (lastCall.op \in {"verifyAccessToken", "verifyRefreshToken"}
          /\ lastCall.status # "ok")
         => /\ lastCall.status = "Unauthorized"
            /\ lastCall.message = "Invalid or expired token"
            /\ lastCall.claims = NoClaims
    /\ \A r1 \in FailedVerifications, r2 \in FailedVerifications : r1 = r2
    /\ \A r \in FailedVerifications :
          r.status = "Unauthorized" /\ r.message = "Invalid or expired token"

\* C10 witness: a verifyAccessToken call failed on an expired token, in a
\* state where tokens exist that fail each of the four checks.
C10_Witness ==
    /\ lastCall.op = "verifyAccessToken"
    /\ lastCall.status = "Unauthorized"
    /\ VerifyTokenTry(lastCall.token, TokenSecret, "access").error
         = "jwt expired"
    /\ \A reason \in {"invalid signature", "jwt expired",
                      "Invalid token payload", "Token type mismatch"} :
          \E t \in PresentableTokens :
              VerifyTokenTry(t, TokenSecret, "access").error = reason

\* The Authorization header is exactly `Bearer <token>`
IsBearerForm(request) ==
    /\ request.authorization # <<>>
    /\ Len(request.authorization[1]) = 2
    /\ request.authorization[1][1].text = "Bearer"
    /\ request.authorization[1][2].text # ""

\* The request carries `Bearer <token>` and the token passes jwt.verify now
ValidBearer(request) ==
    /\ IsBearerForm(request)
    /\ LET t == request.authorization[1][2].token[1] IN
         /\ t.wellFormed /\ t.kind = "object"
         /\ TokenSecret # "" /\ t.sig = TokenSecret
         /\ (t.claims.exp = <<>> \/ now < t.claims.exp[1])

BearerTokenOf(request) == request.authorization[1][2].token[1]

\* Lower case, hyphens as underscores: the sanitized form of a tenant id
Sanitized(tenantId) ==
    [i \in 1..Len(tenantId) |->
        IF tenantId[i] = "-" THEN "_"
        ELSE IF tenantId[i] \in DOMAIN LowerOf THEN LowerOf[tenantId[i]]
        ELSE tenantId[i]]

\* C11: tenant/token cross-check.  When a request with a usable x-tenant-id
\* header carries a valid bearer token with a tenantId claim, authenticate
\* answers Forbidden if the sanitized claim differs from the sanitized
\* header, and passes (answers with the profile) if the two sanitized forms
\* are equal, even when the raw strings differ.
C11_TenantCrossCheck ==
    /\ \A r \in Requests :
          ( /\ ValidBearer(r)
            /\ BearerTokenOf(r).claims.tenantId # <<>>
            /\ r.tenantHeader # <<>> )
          => IF Sanitized(BearerTokenOf(r).claims.tenantId)
                  = Sanitized(r.tenantHeader[1])
             THEN /\ authenticate(r).status = "ok"
                  /\ authenticate(r).profile.id = BearerTokenOf(r).claims.sub
             ELSE /\ authenticate(r).status = "Forbidden"
                  /\ authenticate(r).profile = NoProfile
    /\ (lastCall.op = "authenticate" /\ lastCall.token.claims.tenantId # <<>>
          /\ lastCall.status \in {"ok", "Forbidden"})
          => (lastCall.status = "ok"
                <=> Sanitized(lastCall.token.claims.tenantId)
                      = Sanitized(lastCall.tenant[1]))

\* C11 witness: a valid token of tenant `a-b` was presented with the header
\* `c` and answered Forbidden.
C11_Witness ==
    /\ lastCall.op = "authenticate"
    /\ lastCall.status = "Forbidden"
    /\ lastCall.token \in IssuedTokens
    /\ lastCall.token.claims.tenantId = <<"a","-","b">>
    /\ lastCall.tenant = << <<"c">> >>

\* The request has no Authorization header, or its bearer token is no JWT,
\* is signed with another key, or has expired
InvalidBearer(request) ==
    \/ request.authorization = <<>>
    \/ /\ IsBearerForm(request)
       /\ LET t == BearerTokenOf(request) IN
            \/ ~t.wellFormed
            \/ t.sig # TokenSecret
            \/ t.claims.exp # <<>> /\ now >= t.claims.exp[1]

\* C12: token validity is decided before the tenant comparison.  A request
\* whose bearer token is missing, malformed, wrongly signed or expired is
\* answered Unauthorized whatever its x-tenant-id header is (absent,
\* matching or not), never Forbidden, and the answer is the same for every
\* header value.
C12_ValidityBeforeTenant ==
    /\ \A r \in Requests :
          InvalidBearer(r)
          => LET answer == authenticate(r) IN
             /\ answer.status = "Unauthorized"
             /\ \A h \in AuthTenantHeaders :
                   LET other == authenticate([r EXCEPT !.tenantHeader = h]) IN
                   /\ other.status = answer.status
                   /\ other.message = answer.message
    /\ (lastCall.op = "authenticate" /\ lastCall.status = "Forbidden")
          => /\ lastCall.token.wellFormed
             /\ lastCall.token.sig = TokenSecret

\* C12 witness: an issued access token that has expired was presented with
\* a header naming another tenant than the token's, and answered
\* Unauthorized.
C12_Witness ==
    /\ lastCall.op = "authenticate"
    /\ lastCall.status = "Unauthorized"
    /\ lastCall.token \in IssuedTokens
    /\ now >= lastCall.token.claims.exp[1]
    /\ lastCall.tenant # <<>>
    /\ Sanitized(lastCall.tenant[1])
         # Sanitized(lastCall.token.claims.tenantId)

\* C13: authenticate answers Unauthorized, with no identity, when the
\* Authorization header is absent and when it is not exactly of the form
\* `Bearer <token>` (another scheme, or not two space-separated parts), even
\* if the text sent is a token the service issued.
C13_BearerOnly ==
    /\ \A r \in Requests :
          ~IsBearerForm(r)
          => /\ authenticate(r).status = "Unauthorized"
             /\ authenticate(r).profile = NoProfile
             /\ authenticate(r).claims = NoClaims
    /\ (lastCall.op = "authenticate" /\ lastCall.status # "Unauthorized")
          => lastCall.token.wellFormed

\* C13 witness: a header not of type Bearer was answered Unauthorized in a
\* state where an unexpired issued access token could be sent under another
\* scheme with its own tenant in the header.
C13_Witness ==
    /\ lastCall.op = "authenticate"
    /\ lastCall.status = "Unauthorized"
    /\ lastCall.message = "Authorization header is not of type Bearer"
    /\ \E r \in Requests :
          /\ r.authorization \in WrongSchemeHeaders
          /\ LET t == r.authorization[1][2].token[1] IN
               /\ IsAccessToken(t)
               /\ now < t.claims.exp[1]
               /\ r.tenantHeader # <<>>
               /\ Sanitized(r.tenantHeader[1]) = Sanitized(t.claims.tenantId)

----------------------------------------------------------------------------
(* Authorizer: properties *)

HasRole(principal, role) ==
    \E i \in DOMAIN principal[1].roles : principal[1].roles[i] = role

\* The roles: student 1 < instructor 2 < tenantAdmin 3 < superAdmin 4
Roles == {"student", "instructor", "tenantAdmin", "superAdmin"}

RankOf(role) ==
    CASE role = "student"     -> 1
      [] role = "instructor"  -> 2
      [] role = "tenantAdmin" -> 3
      [] role = "superAdmin"  -> 4

\* Every role of the list is one of the four roles
RolesOnly(roles) == \A i \in DOMAIN roles : roles[i] \in Roles

\* No identity, or an identity that holds none but the four roles
OfRoles(principal) == principal = <<>> \/ RolesOnly(principal[1].roles)

\* The maximum rank among an identity's roles, 0 if it has none
MaxRankOf(roles) ==
    IF roles = <<>> THEN 0
    ELSE CHOOSE m \in {RankOf(roles[i]) : i \in DOMAIN roles} :
           \A i \in DOMAIN roles : RankOf(roles[i]) <= m

\* The minimum rank among a non-empty list of allowed roles
MinRankOf(roles) ==
    CHOOSE m \in {RankOf(roles[i]) : i \in DOMAIN roles} :
        \A i \in DOMAIN roles : m <= RankOf(roles[i])

\* The invocation tenant is known and is not the identity's tenant
TenantMismatch(principal, invocationTenant) ==
    invocationTenant # <<>> /\ principal[1].tenantId # invocationTenant[1]

\* A call of the authorizer was made
Authorized == authz.decision # "none"

\* C14: superAdmin bypass.  An identity whose roles include superAdmin is
\* given ALLOW for every invocation tenant, its own or another or none, and
\* for every allowed-role list.
C14_SuperAdminBypass ==
    /\ (Authorized /\ authz.principal # <<>>
          /\ HasRole(authz.principal, "superAdmin"))
          => authz.decision = "ALLOW"
    /\ \A p \in Principals, t \in InvocationTenants, a \in AllowedRoleLists :
          (p # <<>> /\ HasRole(p, "superAdmin"))
             => authorize(p, t, a) = "ALLOW"

\* C14 witness: a superAdmin of one tenant was allowed on an invocation of
\* another tenant whose endpoint requires tenantAdmin.
C14_Witness ==
    /\ authz.principal # <<>>
    /\ authz.principal[1].roles = <<"superAdmin">>
    /\ TenantMismatch(authz.principal, authz.invocationTenant)
    /\ authz.allowedRoles = << <<"tenantAdmin">> >>
    /\ authz.decision = "ALLOW"

\* C15: tenant isolation precedes roles.  An identity without superAdmin
\* whose tenant differs from the known invocation tenant is given DENY,
\* whatever its roles and whatever the allowed roles, the empty list
\* included.
C15_TenantBeforeRoles ==
    /\ (Authorized /\ authz.principal # <<>>
          /\ ~HasRole(authz.principal, "superAdmin")
          /\ TenantMismatch(authz.principal, authz.invocationTenant))
          => authz.decision = "DENY"
    /\ \A p \in Principals, t \in InvocationTenants, a \in AllowedRoleLists :
          (p # <<>> /\ ~HasRole(p, "superAdmin") /\ TenantMismatch(p, t))
             => authorize(p, t, a) = "DENY"

\* C15 witness: a tenantAdmin of one tenant was denied on an invocation of
\* another tenant whose endpoint declares an empty allowed-role list.
C15_Witness ==
    /\ authz.principal # <<>>
    /\ authz.principal[1].roles = <<"tenantAdmin">>
    /\ TenantMismatch(authz.principal, authz.invocationTenant)
    /\ authz.allowedRoles = << <<>> >>
    /\ authz.decision = "DENY"

\* The five-step decision: no identity, superAdmin, tenant mismatch, empty
\* requirement, then maximum rank against the minimum allowed rank
FiveSteps(principal, invocationTenant, allowedRoles) ==
    IF principal = <<>> THEN "DENY"
    ELSE IF HasRole(principal, "superAdmin") THEN "ALLOW"
    ELSE IF TenantMismatch(principal, invocationTenant) THEN "DENY"
    ELSE IF allowedRoles = <<>> \/ allowedRoles[1] = <<>> THEN "ALLOW"
    ELSE IF MaxRankOf(principal[1].roles) >= MinRankOf(allowedRoles[1])
    THEN "ALLOW"
    ELSE "DENY"

\* C16: authorize computes the five-step decision for every identity whose
\* roles are among the four, every invocation tenant and every allowed-role
\* list: DENY without an identity; else ALLOW for a superAdmin; else DENY on
\* a tenant mismatch; else ALLOW on an empty allowed-role list; else ALLOW
\* exactly when the identity's maximum rank is at least the minimum allowed
\* rank.
C16_FiveStepDecision ==
    /\ (Authorized /\ OfRoles(authz.principal))
          => authz.decision = FiveSteps(authz.principal, authz.invocationTenant,
                                        authz.allowedRoles)
    /\ \A p \in Principals, t \in InvocationTenants, a \in AllowedRoleLists :
          OfRoles(p) => authorize(p, t, a) = FiveSteps(p, t, a)

\* C16 witness: an instructor was allowed, in its own tenant, on an endpoint
\* that allows tenantAdmin and instructor (the minimum rank decides).
C16_Witness ==
    /\ authz.principal # <<>>
    /\ authz.principal[1].roles = <<"instructor">>
    /\ authz.invocationTenant = <<authz.principal[1].tenantId>>
    /\ authz.allowedRoles = << <<"tenantAdmin", "instructor">> >>
    /\ authz.decision = "ALLOW"

\* The decision for an identity of the given tenant and roles
DecisionFor(tenantId, roles, invocationTenant, allowedRoles) ==
    authorize(<< [ id |-> "u", email |-> "u@x.com", tenantId |-> tenantId,
                   roles |-> roles, name |-> <<>>, permissions |-> <<>> ] >>,
              invocationTenant, allowedRoles)

\* C17: role monotonicity.  Within one tenant, when an identity is allowed
\* on an endpoint every identity of at least its maximum rank is allowed
\* too (the identities holding none but the four roles); a tenantAdmin is
\* allowed where only instructor or only student is required, an
\* instructor is denied where only tenantAdmin is allowed and a student
\* where only instructor is allowed.
C17_RoleMonotonicity ==
    /\ (Authorized /\ authz.principal # <<>> /\ authz.decision = "ALLOW"
          /\ RolesOnly(authz.principal[1].roles))
          => \A roles \in PrincipalRoles :
                (/\ RolesOnly(roles)
                 /\ MaxRankOf(roles) >= MaxRankOf(authz.principal[1].roles))
                   => DecisionFor(authz.principal[1].tenantId, roles,
                                  authz.invocationTenant, authz.allowedRoles)
                        = "ALLOW"
    /\ \A t \in PrincipalTenants :
          /\ DecisionFor(t, <<"tenantAdmin">>, <<t>>, << <<"instructor">> >>)
                = "ALLOW"
          /\ DecisionFor(t, <<"tenantAdmin">>, <<t>>, << <<"student">> >>)
                = "ALLOW"
          /\ DecisionFor(t, <<"instructor">>, <<t>>, << <<"tenantAdmin">> >>)
                = "DENY"
          /\ DecisionFor(t, <<"student">>, <<t>>, << <<"instructor">> >>)
                = "DENY"

\* C17 witness: an instructor was allowed in its own tenant on an endpoint
\* requiring only student, so that the tenantAdmin must be allowed too.
C17_Witness ==
    /\ authz.principal # <<>>
    /\ authz.principal[1].roles = <<"instructor">>
    /\ authz.invocationTenant = <<authz.principal[1].tenantId>>
    /\ authz.allowedRoles = << <<"student">> >>
    /\ authz.decision = "ALLOW"

----------------------------------------------------------------------------
(* Course tree: properties *)

ModuleChildOps ==
    {"getModule", "updateModule", "deleteModule", "uploadModuleAttachment"}

ChapterChildOps ==
    {"getChapter", "updateChapter", "deleteChapter",
     "uploadChapterAttachment"}

SessionChildOps == {"getSession", "updateSession", "deleteSession"}

ReminderChildOps == {"updateReminder", "cancelReminder"}

AttendanceChildOps == {"deleteAttendance"}

ChildOps ==
    ModuleChildOps \cup ChapterChildOps \cup SessionChildOps
      \cup ReminderChildOps \cup AttendanceChildOps

\* The operations on modules and sessions, whose path starts at a course
UnderCourseOps ==
    {"createModule", "listModules", "createSession", "listSessions"}
      \cup ModuleChildOps \cup SessionChildOps

\* The operations on chapters, whose path starts at a module
UnderModuleOps == {"createChapter", "listChapters"} \cup ChapterChildOps

\* The operations on reminders and attendance, whose path starts at a session
UnderSessionOps ==
    {"scheduleReminder", "listReminders", "upsertAttendance",
     "listAttendance"} \cup ReminderChildOps \cup AttendanceChildOps

\* The module, chapter, session, reminder and attendance operations
TreeOps == UnderCourseOps \cup UnderModuleOps \cup UnderSessionOps

\* The operations of CoursesController that guard the course of the path
CourseOps == {"getCourse", "updateCourse"}

\* The collection that holds the child a request addresses
ChildCollection(op) ==
    CASE op \in ModuleChildOps -> "modules"
      [] op \in ChapterChildOps -> "chapters"
      [] op \in SessionChildOps -> "sessions"
      [] op \in ReminderChildOps -> "reminders"
      [] op \in AttendanceChildOps -> "attendance"

\* The collection that holds the parent a request names in its path
ParentCollection(op) ==
    CASE op \in UnderCourseOps \cup CourseOps -> "courses"
      [] op \in UnderModuleOps -> "modules"
      [] op \in UnderSessionOps -> "sessions"

ChildStored(request, store) ==
    request.child \in DOMAIN store[ChildCollection(request.op)]

\* The parent id stored in the child a request addresses
PersistedParent(request, store) ==
    LET child == store[ChildCollection(request.op)][request.child] IN
    CASE request.op \in ModuleChildOps \cup SessionChildOps -> child.courseId
      [] request.op \in ChapterChildOps -> child.moduleId
      [] request.op \in ReminderChildOps \cup AttendanceChildOps ->
           child.sessionId

\* The course at the root of the parent links of the path of a request, if
\* the links lead to a stored course
RootCourse(request, store) ==
    LET op == request.op
        courseId ==
            CASE op \in UnderCourseOps \cup CourseOps -> <<request.parent>>
              [] op \in UnderModuleOps ->
                   IF request.parent \in DOMAIN store.modules
                   THEN <<store.modules[request.parent].courseId>>
                   ELSE <<>>
              [] op \in UnderSessionOps ->
                   IF request.parent \in DOMAIN store.sessions
                   THEN <<store.sessions[request.parent].courseId>>
                   ELSE <<>>
    IN IF courseId # <<>> /\ courseId[1] \in DOMAIN store.courses
       THEN <<store.courses[courseId[1]]>> ELSE <<>>

\* The module, chapter or session a request addresses is stored under the
\* parent its path names
ChainIntact(request, store) ==
    request.op \in ModuleChildOps \cup ChapterChildOps \cup SessionChildOps
        => /\ ChildStored(request, store)
           /\ PersistedParent(request, store) = request.parent

\* The handlers that take the step, and the handler that ends in it
Stepped == {c \in Range(calls) : c \notin Range(calls')}

Ended == IF last' # last THEN {last'.call} ELSE {}

HeaderAccepted(call) == RequestTenant(call.request).status = "ok"

CallerTenant(call) == RequestTenant(call.request).tenantId

OwnCourse(course, call) ==
    /\ course.tenantId # <<>>
    /\ sanitizeTenantId(course.tenantId) = CallerTenant(call)

ForeignCourse(course, call) ==
    /\ course.tenantId # <<>>
    /\ sanitizeTenantId(course.tenantId) # CallerTenant(call)

\* The course the guard of the handler has read is of the caller's tenant
HoldsOwnCourse(call) ==
    call.mem.course # <<>> /\ OwnCourse(call.mem.course[1], call)

\* The collections of the course tree
TreeCollections ==
    {"courses", "modules", "chapters", "sessions", "reminders", "attendance"}

\* The records of the course tree of every tenant, whichever database
\* holds them: the ids are generated, so no two records share one
Everywhere ==
    [ coll \in TreeCollections |->
        [ id \in UNION {DOMAIN db.tenant[d][coll] : d \in DatabaseNames} |->
            db.tenant[CHOOSE d \in DatabaseNames :
                         id \in DOMAIN db.tenant[d][coll]][coll][id] ] ]

OwnershipStep ==
    /\ \A c \in Stepped :
          (c.request.op \in TreeOps /\ db'.tenant # db.tenant)
              => HoldsOwnCourse(c)
    /\ \A c \in Ended :
          (c.request.op \in TreeOps /\ HeaderAccepted(c)) =>
              LET root == RootCourse(c.request, Everywhere) IN
              /\ ( /\ root # <<>>
                   /\ ChainIntact(c.request, Everywhere)
                   /\ ForeignCourse(root[1], c) )
                     => /\ last'.status = "Forbidden"
                        /\ db'.tenant = db.tenant
              /\ last'.status = "ok" => HoldsOwnCourse(c)

\* C18 as stated: the ownership chain is enforced.  A module, chapter,
\* session, reminder or attendance operation creates, updates or deletes a
\* record, or succeeds, only when the root course its guard reached through
\* the parent links carries the caller's sanitized header tenant; when the
\* root course of the resource, reached through its parent links, belongs
\* to another tenant, the operation ends with Forbidden and writes nothing.
C18_OwnershipChain == [][OwnershipStep]_vars

\* The child a request addresses is stored, the parent its path names is
\* stored, and the parent id stored in the child is another
ParentMismatch(request, store) ==
    /\ request.op \in ChildOps
    /\ ChildStored(request, store)
    /\ request.parent \in DOMAIN store[ParentCollection(request.op)]
    /\ PersistedParent(request, store) # request.parent

MismatchStep ==
    \A c \in Ended :
        ( /\ c.request.op \in ChildOps
          /\ HeaderAccepted(c)
          /\ ParentMismatch(c.request, StoreOf(c.request)) )
            => /\ last'.status = "Forbidden"
               /\ db'.tenant = db.tenant

GuardedOps == TreeOps \cup CourseOps \cup {"uploadCourseAttachment"}

\* The Forbidden messages of the checks of the tenant of a course: those of
\* the controllers, and those of findCourseForTenant and
\* findModuleForTenant of the attachment service
TenantForbiddenMessages ==
    { "Course does not belong to this tenant",
      "Target module does not belong to this tenant",
      "Session does not belong to this tenant",
      "Module does not belong to this tenant" }

\* The course the handler read last for a check of its tenant: the one of
\* the attachment service if it has read one, else the one of the
\* controller
CourseChecked(call) ==
    IF call.mem.owner # <<>> THEN call.mem.owner ELSE call.mem.course

IntegrityStep ==
    \A c \in Ended :
        (c.request.op \in GuardedOps /\ HeaderAccepted(c)) =>
            /\ ( /\ CourseChecked(c) # <<>>
                 /\ CourseChecked(c)[1].tenantId = <<>> )
                   => /\ last'.status = "BadRequest"
                      /\ db'.tenant = db.tenant
            /\ ( /\ last'.status = "Forbidden"
                 /\ last'.message \in TenantForbiddenMessages )
                   => /\ CourseChecked(c) # <<>>
                      /\ ForeignCourse(CourseChecked(c)[1], c)

\* C20 as stated: data-integrity faults are told from ownership
\* mismatches.  Whenever a check of ownership reaches a course that has no
\* tenant id, the operation fails with BadRequest, whatever the caller's
\* tenant, and writes nothing; Forbidden is returned by such a check only
\* when the course has a tenant id whose sanitized form differs from the
\* caller's sanitized header tenant.
C20_IntegrityFaultIsBadRequest == [][IntegrityStep]_vars

----------------------------------------------------------------------------
(* Utilities: properties *)

\* C23: sanitization is idempotent.  For every tenant id of the pattern,
\* sanitizing twice gives what sanitizing once gives, and the database name
\* built from the id is the one built from the sanitized id: the prefix, an
\* underscore and the sanitized id.
C23_SanitizeIdempotent ==
    \A i \in DOMAIN probe :
        (probe[i].op = "sanitizeTenantId"
           /\ TenantIdPatternTest(probe[i].tenantId)) =>
            /\ probe[i].twice = probe[i].once
            /\ probe[i].database = probe[i].databaseOfSanitized
            /\ probe[i].database = TenantDbPrefix \o <<"_">> \o probe[i].once

\* A tenant id with two hyphens and an upper-case letter was sanitized
C23_Witness ==
    \E i \in DOMAIN probe :
        /\ probe[i].op = "sanitizeTenantId"
        /\ probe[i].tenantId = <<"-", "B", "-">>
        /\ probe[i].once = <<"_", "b", "_">>

\* C24: the hasher's safe defaults.  hashPassword of the empty plaintext
\* fails with an error; comparePassword returns false, and does not throw,
\* whenever the plaintext is empty or the digest is empty, whatever the
\* other argument is.
C24_HasherSafeDefaults ==
    \A i \in DOMAIN probe :
        /\ (probe[i].op = "hashPassword" /\ probe[i].plain = <<>>) =>
               probe[i].result.status = "Error"
        /\ (probe[i].op = "comparePassword"
               /\ (probe[i].plain = <<>> \/ probe[i].hashed = <<>>)) =>
               /\ probe[i].result.status = "ok"
               /\ probe[i].result.value = FALSE

\* The empty plaintext was compared with the digest of the empty plaintext
C24_Witness ==
    \E i \in DOMAIN probe :
        /\ probe[i].op = "comparePassword"
        /\ probe[i].plain = <<>>
        /\ probe[i].hashed = BcryptHash(<<>>)
        /\ probe[i].result.value = FALSE

----------------------------------------------------------------------------
(* Attendance: properties *)

\* The upsertAttendance and deleteAttendance calls in flight for a session
\* of a database
MarksInFlight(database, sessionId) ==
    {i \in DOMAIN calls :
        /\ calls[i].request.op \in {"upsertAttendance", "deleteAttendance"}
        /\ calls[i].request.parent = sessionId
        /\ TenantDatabase(calls[i].request.tenant) = database}

\* C26: the attendance aggregates stay consistent.  Whenever no
\* upsertAttendance or deleteAttendance call is in flight for a session,
\* its attendeeCount is the number of its records with status present and
\* its absenceCount the number with status absent, after any interleaving
\* of completed calls.
C26_AggregatesConsistent ==
    \A d \in DatabaseNames : \A sessionId \in DOMAIN db.tenant[d].sessions :
        MarksInFlight(d, sessionId) = {} =>
            /\ db.tenant[d].sessions[sessionId].attendeeCount
                   = CountAttendance(db.tenant[d], sessionId, "present")
            /\ db.tenant[d].sessions[sessionId].absenceCount
                   = CountAttendance(db.tenant[d], sessionId, "absent")

----------------------------------------------------------------------------
(* CMS: properties *)

\* The revisions updateDraft has written for a content
DraftRevisions(id) ==
    {n \in DOMAIN cms.revisions :
        /\ cms.revisions[n].cmsContentId = id
        /\ cms.revisions[n].op = "updateDraft"}

\* C27: updating a draft bumps its revision.  Each successful updateDraft
\* stores one revision, so once no call is in flight a content created at
\* version 1 is at version 1 + n after n successful calls, overlapping or
\* not, and no two revisions written by updateDraft for one content carry
\* the same version.
C27_DraftVersions ==
    \A c \in Range(cms.contents) :
        /\ CmsInFlight = {} =>
               c.version = 1 + Cardinality(DraftRevisions(c.id))
        /\ \A n, m \in DraftRevisions(c.id) :
               cms.revisions[n].version = cms.revisions[m].version => n = m

----------------------------------------------------------------------------
(* Accounts: properties *)

\* The stored users, each with the database that holds it
StoredUsers ==
    {[database |-> d, user |-> users[d][i]] :
        <<d, i>> \in {p \in DatabaseNames \X (1..(MaxUsers + 1)) :
                         p[2] \in DOMAIN users[p[1]]}}

\* The login requests that carry a valid tenant header and the address and
\* password of the stored user
CorrectLogins(user) ==
    {q \in AccountTenantHeaders \X LoginBodies :
        /\ extractTenantId(q[1]).status = "ok"
        /\ ToLowerCase(q[2].email) = user.email
        /\ comparePassword(q[2].password, user.password).value}

\* C21: login is bound to the tenant.  Once a user is registered, a login
\* with the user's address and password succeeds with an access and a
\* refresh token when the sanitized header tenant is the user's tenant, and
\* is answered Forbidden, without tokens, when it is another tenant.
C21_LoginTenantBound ==
    \A s \in StoredUsers : \A q \in CorrectLogins(s.user) :
        LET r == RunAuth(AuthCall(0, "login", q[1], q[2]), users) IN
        IF sanitizeTenantId(extractTenantId(q[1]).tenantId) = s.user.tenantId
        THEN /\ r.status = "ok"
             /\ r.response # <<>>
             /\ r.response[1].tokens.accessToken.wellFormed
             /\ r.response[1].tokens.refreshToken.wellFormed
        ELSE /\ r.status = "Forbidden"
             /\ r.response = <<>>

\* The register requests that list superAdmin or a role that does not exist
ListsPrivilege(body) ==
    /\ body.roles # <<>>
    /\ \E r \in Range(body.roles[1]) :
          r \notin {"tenantAdmin", "instructor", "student"}

\* The user the step has created, with its database, as a set
Created ==
    {[database |-> d, user |-> users[d][Len(users[d])]'] :
        d \in {x \in DatabaseNames : Len(users[x]') > Len(users[x])}}

\* The handlers that take the step
AuthStepped == {c \in Range(calls) : c \notin Range(calls')}

\* What self-registration may do in one step, with `statuses` the answers a
\* request that lists superAdmin or an unknown role may get
SelfRegistrationStep(statuses) ==
    /\ \A q \in RegisterTenantHeaders \X RegisterBodies :
          ListsPrivilege(q[2]) =>
              LET r == RunAuth(AuthCall(0, "register", q[1], q[2]), users) IN
              r.status \in statuses /\ r.users = users
    /\ \A c \in AuthStepped :
          (c.op = "register" /\ ListsPrivilege(c.body)) =>
              /\ \A i \in DOMAIN calls' : calls'[i].ticket # c.ticket
              /\ last'.status \in statuses
              /\ users' = users
    /\ \A n \in Created :
          \E c \in AuthStepped :
              /\ c.op = "register"
              /\ c.pc = "userRepository.create"
              /\ ~ListsPrivilege(c.body)
              /\ (c.body.roles = <<>> \/ c.body.roles[1] = <<>>) =>
                     n.user.roles = <<"student">>
              /\ n.user.tenantId
                     = sanitizeTenantId(extractTenantId(c.header).tenantId)
              /\ n.database = TenantDatabase(c.header)
    /\ \A d \in DatabaseNames : \A i \in DOMAIN users[d]' :
          "superAdmin" \notin Range(users[d][i].roles')

\* C29 as stated: self-registration cannot grant platform privilege.  No
\* created user has the superAdmin role; a request listing superAdmin or an
\* unknown role fails with BadRequest and creates no user; absent or empty
\* roles create a user with exactly [student]; the stored tenantId is the
\* sanitized header tenant of the request that created the user.
C29_PrivilegeIsBadRequest == [][SelfRegistrationStep({"BadRequest"})]_vars

\* C29, amended: as above, but a request listing superAdmin or an unknown
\* role fails with BadRequest or, when its address is already registered in
\* the tenant's database, with Conflict; either way it creates no user.
C29_NoPrivilegeBySelfRegistration ==
    [][SelfRegistrationStep({"BadRequest", "Conflict"})]_vars

\* A user registered without roles is stored as a student of the sanitized
\* tenant, and a request listing superAdmin was refused
C29_Witness ==
    /\ \E s \in StoredUsers :
          /\ s.user.roles = <<"student">>
          /\ s.user.tenantId = <<"a", "_", "b">>
    /\ last = [status |-> "BadRequest",
               message |-> "Invalid roles: superAdmin"]

\* C30: email uniqueness under concurrent registration.  After any
\* interleaving of register calls, the database of a tenant holds at most
\* one user per lower-cased address: of two registrations of one address
\* one creates the user and the other is answered Conflict.
C30_EmailUnique ==
    \A d \in DatabaseNames : \A i, j \in DOMAIN users[d] :
        ToLowerCase(users[d][i].email) = ToLowerCase(users[d][j].email)
            => i = j

\* A request that presents the access token of an issued pair
Presents(i, header) ==
    [authorization |-> Bearer(i.response.accessToken), tenantHeader |-> header]

\* The access token of an issued pair has not expired
Unexpired(i) == now < i.response.accessToken.claims.exp[1]

\* The stored user a pair was issued to, as a set
HolderOf(i) == {s.user : s \in {x \in StoredUsers : x.user.id = i.profile.id}}

\* C22: tokens are never revoked.  In every state the server reaches after
\* a token pair was issued (through password changes, suspensions, logins,
\* refreshes, connections opened, failing or closed by disconnectAll), the
\* access token, as long as it has not expired, gets from authenticate the
\* result it got when it was issued: accepted with the profile it was
\* issued to under the holder's tenant, Forbidden under another tenant.
C22_NeverRevoked ==
    \A i \in issued : \A header \in LifetimeHeaders :
        Unexpired(i) =>
            LET r == authenticate(Presents(i, header)) IN
            IF sanitizeTenantId(extractTenantId(header).tenantId)
                 = i.profile.tenantId
            THEN /\ r.status = "ok"
                 /\ r.profile = i.profile
                 /\ r.claims = i.response.accessToken.claims
            ELSE /\ r.status = "Forbidden"
                 /\ r.message = "Token tenant mismatch"

\* An unexpired token is accepted although its holder has changed the
\* password and has been suspended since
C22_Witness ==
    \E i \in issued : \E u \in HolderOf(i) :
        /\ Unexpired(i)
        /\ u.status = "suspended"
        /\ u.password = BcryptHash(Password2)
        /\ dcall.status # "none"
        /\ authenticate(Presents(i, LifetimeHeader)).status = "ok"
        /\ authenticate(Presents(i, LifetimeHeader)).profile = i.profile

----------------------------------------------------------------------------
(* The REST sequence: properties *)

\* What each stage makes of the request in the sequence
BoundOf(request) == TenantContextMiddleware(request.tenantHeader)

IdentityOf(request) ==
    authenticate([ authorization |-> request.authorization,
                   tenantHeader  |-> request.tenantHeader ])

DecisionOf(request) ==
    authorize(<<IdentityOf(request).profile>>, BoundOf(request).bound,
              CreateModuleAllowedRoles)

\* The order of the stages as the claim gives it
StatedOrder == <<"tenant", "connection", "authenticate", "authorize", "handler">>

\* The number of stages a request has entered by the time it is in a stage
Upto(order, stage) == CHOOSE k \in DOMAIN order : order[k] = stage

\* The stages a request has entered are the first stages of `order`, none
\* skipped; a handler runs only after all of them; a request whose tenant
\* header is invalid enters no stage after tenant resolution, one whose
\* token is rejected none after authentication, one whose role or tenant is
\* denied none after authorization; the store differs from what the request
\* found only if the request entered the handler after every stage before
\* it let it pass
StagesFollow(order) ==
    pipe # <<>> =>
        LET p == pipe[1] IN
        /\ Len(p.trace) <= Len(order)
        /\ \A k \in 1..Len(p.trace) : p.trace[k] = order[k]
        /\ p.stage \in Range(order) =>
               /\ Len(p.trace) < Len(order)
               /\ p.stage = order[Len(p.trace) + 1]
        /\ p.stage = "authorizing" =>
               Len(p.trace) = Upto(order, "authorize")
        /\ p.stage = "handling" => p.trace = order
        /\ calls # <<>> => p.stage = "handling"
        /\ BoundOf(p.request).status # "ok" =>
               Len(p.trace) <= Upto(order, "tenant")
        /\ IdentityOf(p.request).status # "ok" =>
               Len(p.trace) <= Upto(order, "authenticate")
        /\ (/\ BoundOf(p.request).status = "ok"
            /\ IdentityOf(p.request).status = "ok"
            /\ DecisionOf(p.request) # "ALLOW") =>
               Len(p.trace) <= Upto(order, "authorize")
        /\ db.tenant # p.store =>
               /\ p.trace = order
               /\ BoundOf(p.request).status = "ok"
               /\ IdentityOf(p.request).status = "ok"
               /\ DecisionOf(p.request) = "ALLOW"

----------------------------------------------------------------------------
(* Specifications *)

\* The default configuration, no token call made
AuthIdle ==
    /\ env = [ JWT_SECRET |-> <<>>, JWT_REFRESH_SECRET |-> <<>>,
               TENANT_DB_PREFIX |-> <<>> ]
    /\ now = 0
    /\ issued = {}
    /\ lastCall = Call("none", NoToken, <<>>, "none", "", NoClaims, NoProfile)

\* The default secrets under any TENANT_DB_PREFIX, no token call made
AuthIdlePrefixed ==
    /\ env \in [ JWT_SECRET : {<<>>}, JWT_REFRESH_SECRET : {<<>>},
                 TENANT_DB_PREFIX : PrefixValues ]
    /\ now = 0
    /\ issued = {}
    /\ lastCall = Call("none", NoToken, <<>>, "none", "", NoClaims, NoProfile)

InitRegistry == RegistryInit /\ AuthIdlePrefixed /\ AuthzIdle /\ StoreInit /\ ServicesIdle

NextRegistry ==
    \/ \E header \in TenantHeaders : Value(header)
    \/ \E c \in ConnIds : ConnectionEstablished(c)
    \/ \E c \in ConnIds : ConnectionError(c)
    \/ DisconnectAll
    \/ \E c \in ConnIds, ok \in BOOLEAN : DisconnectSettles(c, ok)
    \/ DisconnectAllSettles

\* The connection registry under requests, connection events and shutdown
SpecRegistry == InitRegistry /\ [][NextRegistry]_vars

InitToken == AuthInit /\ RegistryInit /\ AuthzIdle /\ StoreInit /\ ServicesIdle

NextToken ==
    \/ \E profile \in Profiles : GenerateTokenPair(profile)
    \/ \E token \in PresentableTokens : VerifyAccessToken(token)
    \/ \E token \in PresentableTokens : VerifyRefreshToken(token)
    \/ Tick

\* The token service under any environment, as time passes
SpecToken == InitToken /\ [][NextToken]_vars

\* The environments the strategy is run under: both secrets unset (the two
\* defaults, which differ), both empty, both set to one value
StrategyEnvs ==
    { e \in [ JWT_SECRET : EnvValues, JWT_REFRESH_SECRET : EnvValues,
               TENANT_DB_PREFIX : {<<>>} ] :
        e.JWT_REFRESH_SECRET = e.JWT_SECRET }

InitAuth ==
    AuthInit /\ env \in StrategyEnvs /\ RegistryInit /\ AuthzIdle /\ StoreInit /\ ServicesIdle

NextAuth ==
    \/ \E profile \in Profiles : GenerateTokenPair(profile)
    \/ \E request \in Requests : Authenticate(request)
    \/ Tick

\* The authentication strategy in front of the token service
SpecAuth == InitAuth /\ [][NextAuth]_vars

InitAuthz == RegistryInit /\ AuthIdle /\ AuthzIdle /\ StoreInit /\ ServicesIdle

NextAuthz ==
    \/ \E principal \in Principals, invocationTenant \in InvocationTenants,
          allowedRoles \in AllowedRoleLists :
           Authorize(principal, invocationTenant, allowedRoles)
    \/ AuthorizeResumes

\* The authorizer under every identity, invocation tenant and requirement
SpecAuthz == InitAuthz /\ [][NextAuthz]_vars

InitTree == RegistryInit /\ AuthIdle /\ AuthzIdle /\ StoreInit /\ ServicesIdle

NextTree ==
    \/ \E request \in Traffic :
          /\ request.op = "createCourse"
          /\ Starts(createCourse(Arrives(request), EmptyStore), MaxCalls)
    \/ \E request \in Traffic :
          /\ request.op = "listCourses"
          /\ Starts(listCourses(Arrives(request), EmptyStore), MaxCalls)
    \/ \E request \in Traffic :
          /\ request.op = "getCourse"
          /\ Starts(getCourse(Arrives(request), EmptyStore), MaxCalls)
    \/ \E request \in Traffic :
          /\ request.op = "updateCourse"
          /\ Starts(updateCourse(Arrives(request), EmptyStore), MaxCalls)
    \/ \E request \in Traffic :
          /\ request.op = "uploadCourseAttachment"
          /\ Starts(uploadCourseAttachment(Arrives(request), EmptyStore), MaxCalls)
    \/ \E request \in Traffic :
          /\ request.op = "createModule"
          /\ Starts(createModule(Arrives(request), EmptyStore), MaxCalls)
    \/ \E request \in Traffic :
          /\ request.op = "listModules"
          /\ Starts(listModules(Arrives(request), EmptyStore), MaxCalls)
    \/ \E request \in Traffic :
          /\ request.op = "getModule"
          /\ Starts(getModule(Arrives(request), EmptyStore), MaxCalls)
    \/ \E request \in Traffic :
          /\ request.op = "updateModule"
          /\ Starts(updateModule(Arrives(request), EmptyStore), MaxCalls)
    \/ \E request \in Traffic :
          /\ request.op = "uploadModuleAttachment"
          /\ Starts(uploadModuleAttachment(Arrives(request), EmptyStore), MaxCalls)
    \/ \E request \in Traffic :
          /\ request.op = "deleteModule"
          /\ Starts(deleteModule(Arrives(request), EmptyStore), MaxCalls)
    \/ \E request \in Traffic :
          /\ request.op = "createChapter"
          /\ Starts(createChapter(Arrives(request), EmptyStore), MaxCalls)
    \/ \E request \in Traffic :
          /\ request.op = "listChapters"
          /\ Starts(listChapters(Arrives(request), EmptyStore), MaxCalls)
    \/ \E request \in Traffic :
          /\ request.op = "getChapter"
          /\ Starts(getChapter(Arrives(request), EmptyStore), MaxCalls)
    \/ \E request \in Traffic :
          /\ request.op = "updateChapter"
          /\ Starts(updateChapter(Arrives(request), EmptyStore), MaxCalls)
    \/ \E request \in Traffic :
          /\ request.op = "uploadChapterAttachment"
          /\ Starts(uploadChapterAttachment(Arrives(request), EmptyStore), MaxCalls)
    \/ \E request \in Traffic :
          /\ request.op = "deleteChapter"
          /\ Starts(deleteChapter(Arrives(request), EmptyStore), MaxCalls)
    \/ \E request \in Traffic :
          /\ request.op = "createSession"
          /\ Starts(createSession(Arrives(request), EmptyStore), MaxCalls)
    \/ \E request \in Traffic :
          /\ request.op = "listSessions"
          /\ Starts(listSessions(Arrives(request), EmptyStore), MaxCalls)
    \/ \E request \in Traffic :
          /\ request.op = "getSession"
          /\ Starts(getSession(Arrives(request), EmptyStore), MaxCalls)
    \/ \E request \in Traffic :
          /\ request.op = "updateSession"
          /\ Starts(updateSession(Arrives(request), EmptyStore), MaxCalls)
    \/ \E request \in Traffic :
          /\ request.op = "deleteSession"
          /\ Starts(deleteSession(Arrives(request), EmptyStore), MaxCalls)
    \/ \E request \in Traffic :
          /\ request.op = "scheduleReminder"
          /\ Starts(scheduleReminder(Arrives(request), EmptyStore), MaxCalls)
    \/ \E request \in Traffic :
          /\ request.op = "listReminders"
          /\ Starts(listReminders(Arrives(request), EmptyStore), MaxCalls)
    \/ \E request \in Traffic :
          /\ request.op = "updateReminder"
          /\ Starts(updateReminder(Arrives(request), EmptyStore), MaxCalls)
    \/ \E request \in Traffic :
          /\ request.op = "cancelReminder"
          /\ Starts(cancelReminder(Arrives(request), EmptyStore), MaxCalls)
    \/ \E request \in Traffic :
          /\ request.op = "upsertAttendance"
          /\ Starts(upsertAttendance(Arrives(request), EmptyStore), MaxCalls)
    \/ \E request \in Traffic :
          /\ request.op = "listAttendance"
          /\ Starts(listAttendance(Arrives(request), EmptyStore), MaxCalls)
    \/ \E request \in Traffic :
          /\ request.op = "deleteAttendance"
          /\ Starts(deleteAttendance(Arrives(request), EmptyStore), MaxCalls)
    \/ \E request \in Traffic :
          /\ request.op = "updateSettings"
          /\ Starts(updateSettings(Arrives(request), EmptyStore), MaxCalls)
    \/ \E request \in Traffic :
          /\ request.op = "updateDropboxConfig"
          /\ Starts(updateDropboxConfig(Arrives(request), EmptyStore), MaxCalls)
    \/ \E i \in DOMAIN calls : Resume(i)

\* The controllers of the course tree under overlapping requests of two
\* tenants
SpecTree == InitTree /\ [][NextTree]_vars

\* The account handlers await by await: registration and login
InitAccount == RegistryInit /\ AuthIdlePrefixed /\ AuthzIdle /\ StoreInit /\ ServicesIdle

NextAccount ==
    \/ \E header \in RegisterTenantHeaders, body \in RegisterBodies :
          db.started < MaxCalls /\ Register(header, body)
    \/ \E header \in AccountTenantHeaders, body \in LoginBodies :
          db.started < MaxCalls /\ Login(header, body)
    \/ \E i \in DOMAIN calls : AuthResume(i, FALSE)

\* Registration and login of the accounts of two tenants
SpecAccount == InitAccount /\ [][NextAccount]_vars

InitLifetime == RegistryInit /\ AuthIdle /\ AuthzIdle /\ StoreInit /\ ServicesIdle

NextLifetime ==
    \/ \E body \in LifetimeRegisterBodies :
          AccountIdle /\ Register(LifetimeHeader, body)
    \/ \E header \in LifetimeHeaders, body \in LifetimeLoginBodies :
          calls = <<>> /\ db.started < MaxRequests /\ Login(header, body)
    \/ \E header \in LifetimeHeaders, token \in IssuedTokens :
          calls = <<>> /\ db.started < MaxRequests /\ Refresh(header, token)
    \/ \E i \in issued, payload \in PasswordBodies :
          /\ calls = <<>>
          /\ db.started < MaxRequests
          /\ authenticate(Presents(i, LifetimeHeader)).status = "ok"
          /\ UpdatePassword(LifetimeHeader,
                            <<authenticate(Presents(i, LifetimeHeader)).profile>>,
                            payload)
    \/ \E i \in issued, payload \in ProfileBodies :
          /\ calls = <<>>
          /\ db.started < MaxRequests
          /\ authenticate(Presents(i, LifetimeHeader)).status = "ok"
          /\ UpdateProfile(LifetimeHeader,
                           <<authenticate(Presents(i, LifetimeHeader)).profile>>,
                           payload)
    \/ \E i \in DOMAIN calls : AuthResume(i, TRUE)
    \/ (now < MaxDays /\ Tick)
    \/ Value(LifetimeHeader)
    \/ \E c \in ConnIds : ConnectionError(c)
    \/ DisconnectAll

\* The tokens of an account while its password and status change
SpecLifetime == InitLifetime /\ [][NextLifetime]_vars

InitTenant == RegistryInit /\ AuthIdlePrefixed /\ AuthzIdle /\ StoreInit /\ ServicesIdle

NextTenant == \E tenantId \in TenantIds : SanitizeTenant(tenantId)

\* The tenant utilities on every tenant id of the pattern
SpecTenant == InitTenant /\ [][NextTenant]_vars

InitHasher == RegistryInit /\ AuthIdle /\ AuthzIdle /\ StoreInit /\ ServicesIdle

NextHasher ==
    \/ \E plain \in Plaintexts : HashPassword(plain)
    \/ \E plain \in Plaintexts, hashed \in Digests :
          ComparePassword(plain, hashed)

\* The password hasher on every pair of a plaintext and a digest
SpecHasher == InitHasher /\ [][NextHasher]_vars

InitCms == RegistryInit /\ AuthIdle /\ AuthzIdle /\ StoreInit /\ ServicesIdle

NextCms ==
    \/ \E tenantId \in CmsTenants, payload \in CmsCreatePayloads :
          CreateDraft(tenantId, payload)
    \/ \E i \in DOMAIN calls : CreateDraftSlug(i)
    \/ \E i \in DOMAIN calls : CreateDraftCreate(i)
    \/ \E tenantId \in CmsTenants, id \in CmsIds, payload \in CmsPayloads :
          UpdateDraft(tenantId, id, payload)
    \/ \E i \in DOMAIN calls : UpdateDraftLoad(i)
    \/ \E i \in DOMAIN calls : UpdateDraftSlug(i)
    \/ \E i \in DOMAIN calls : UpdateDraftWrite(i)
    \/ \E i \in DOMAIN calls : UpdateDraftReload(i)
    \/ \E tenantId \in CmsTenants, id \in CmsIds, scheduled \in BOOLEAN :
          Publish(tenantId, id, scheduled)
    \/ \E tenantId \in CmsTenants, id \in CmsIds : Unpublish(tenantId, id)
    \/ \E tenantId \in CmsTenants, id \in CmsIds : Archive(tenantId, id)
    \/ \E i \in DOMAIN calls : StatusLoad(i)
    \/ \E i \in DOMAIN calls : StatusWrite(i)
    \/ \E i \in DOMAIN calls : StatusReload(i)
    \/ \E i \in DOMAIN calls : SaveRevision(i)

\* The CMS service under calls that overlap at their awaits
SpecCms == InitCms /\ [][NextCms]_vars

InitAttendance == RegistryInit /\ AuthIdle /\ AuthzIdle /\ StoreInit /\ ServicesIdle

NextAttendance ==
    \/ \E request \in MarkRequests :
          request.op = "upsertAttendance" /\ Start(request, MaxMarks)
    \/ \E request \in MarkRequests :
          request.op = "deleteAttendance" /\ Start(request, MaxMarks)
    \/ \E i \in DOMAIN calls : Resume(i)

\* The attendance handlers under calls that overlap at their awaits
SpecAttendance == InitAttendance /\ [][NextAttendance]_vars

InitPipeline == RegistryInit /\ AuthIdle /\ AuthzIdle /\ StoreInit /\ ServicesIdle

NextPipeline ==
    \/ \E profile \in PipeProfiles : GenerateTokenPair(profile)
    \/ \E request \in PipeRequests : Receive(request)
    \/ StageTenant
    \/ StageAuthenticate
    \/ StageConnection
    \/ StageAuthorize
    \/ StageAuthorizeResumes
    \/ StageHandler
    \/ StageHandlerResumes

SpecPipeline == InitPipeline /\ [][NextPipeline]_vars

====
